---- MODULE Spec2Model ----
(***************************************************************************)
(* RankRumble: the Sweet Sixteen double-elimination bracket engine         *)
(* (app/models/tournament.py) on top of the project store and its ELO      *)
(* battle update (app/models/project.py, app/core/elo.py).                 *)
(*                                                                         *)
(* One project holding sixteen items and one tournament is modelled.  The  *)
(* variable project is the persisted project file; every action is one     *)
(* whole request handler, from its get_project to its last _save_project.  *)
(***************************************************************************)
EXTENDS Integers, Sequences, FiniteSets, TLC

(***************************************************************************)
(* Bounds of the exploration.                                              *)
(***************************************************************************)
\* The script is: submit the match get_next_match returns, with winner_side 'a'
\* in the early stages and either side in the last FreeStages entries of
\* PLAY_ORDER.
FreeStages == 4
\* requests off the script: an early result of side 'b', a submission for
\* another match id (playable or not), the deletion of an item
MaxOffScript == 1
\* submissions for the matches of the free stages, in the runs that follow the
\* script through the early stages and then submit these in any order
MaxFinals == 6

(***************************************************************************)
(* Program constants.                                                      *)
(***************************************************************************)
\* Python's None, for item ids, battle ids and match ids
None == 0
\* create_tournament accepts exactly this many ids
NumParticipants == 16
\* settings.k_factor of a new project
k_factor == 32
\* settings.default_rating of a new project
default_rating == 1000
\* total_matches of a new tournament, and after a bracket reset
BaseMatches == 30
ResetMatches == 31

ItemIds == 1..NumParticipants

\* rounds of the winners bracket and their number of matches
WBSize == [r \in 0..3 |-> CASE r = 0 -> 8 [] r = 1 -> 4 [] r = 2 -> 2 [] OTHER -> 1]
\* rounds of the losers bracket and their number of matches
LBSize == [r \in 0..5 |-> CASE r \in {0, 1} -> 4 [] r \in {2, 3} -> 2 [] OTHER -> 1]

\* Standard 16-seed bracket matchups, as 0-based seed ranks
SEED_MATCHUPS ==
  [j \in 0..7 |-> CASE j = 0 -> <<0, 15>> [] j = 1 -> <<7, 8>>
                    [] j = 2 -> <<4, 11>> [] j = 3 -> <<3, 12>>
                    [] j = 4 -> <<5, 10>> [] j = 5 -> <<2, 13>>
                    [] j = 6 -> <<6, 9>>  [] OTHER -> <<1, 14>>]

\* PLAY_ORDER with WB R2 before LB R1
PlayOrderWinnersAhead ==
  << <<"w", 0>>, <<"w", 1>>, <<"l", 0>>, <<"l", 1>>, <<"l", 2>>, <<"w", 2>>,
     <<"l", 3>>, <<"l", 4>>, <<"w", 3>>, <<"l", 5>>, <<"gf", 0>>, <<"reset", 0>> >>

\* the play order of the whole tournament: (bracket_type, round_index)
PLAY_ORDER ==
  << <<"w", 0>>, <<"l", 0>>, <<"w", 1>>, <<"l", 1>>, <<"l", 2>>, <<"w", 2>>,
     <<"l", 3>>, <<"l", 4>>, <<"w", 3>>, <<"l", 5>>, <<"gf", 0>>, <<"reset", 0>> >>

(***************************************************************************)
(* Match ids.  generate_id('match') gives every match its own id; here a   *)
(* match created by create_tournament has as id the place it is created    *)
(* at, and a reset match the match_count at which it is created.           *)
(***************************************************************************)
WBLocs == UNION {{<<"w", r, i>> : i \in 0..(WBSize[r] - 1)} : r \in 0..3}
LBLocs == UNION {{<<"l", r, i>> : i \in 0..(LBSize[r] - 1)} : r \in 0..5}
GFLoc == <<"gf", 0, 0>>
ResetLoc == <<"reset", 0, 0>>
NoLocation == <<"none", 0, 0>>
\* an id that no match of the tournament has
UnknownId == <<"unknown", 0, 0>>

\* _create_match: a match with the given slots and no result
_create_match(id, item_a_id, item_b_id) ==
  [id |-> id, item_a_id |-> item_a_id, item_b_id |-> item_b_id,
   winner_id |-> None, loser_id |-> None, battle_id |-> None]

\* grand_final['reset_match'] is None
NoMatch == _create_match(NoLocation, None, None)
\* tournament['results'] is None
NoResults == <<>>
\* submit_battle / submit_tournament_match return None
NoRecord == [id |-> None]

(***************************************************************************)
(* app/core/elo.py with the rounding of submit_battle.                     *)
(* round(update_elo(a, b, 1.0, 32)) - a depends on b - a alone (for        *)
(* ratings 0..3000): it is the number of entries of EloBreaks that are     *)
(* <= b - a, EloBreaks[n] being the least difference at which              *)
(* round(32 * (1 - expected_score(a, b))) reaches n.  For score 0.5 the    *)
(* result is lower by k / 2, for score 0.0 by k.  Scores are counted in    *)
(* half points: 2 for 1.0, 1 for 0.5, 0 for 0.0.                           *)
(***************************************************************************)
EloBreaks ==
  << -719, -523, -428, -364, -314, -273, -237, -205, -176, -149, -124, -100,
     -77, -54, -32, -10, 11, 33, 55, 78, 101, 125, 150, 177, 206, 238, 274,
     315, 365, 429, 524, 720 >>

\* round(update_elo(rating_a, rating_b, score_a, k_factor)), score_a in half points
update_elo(rating_a, rating_b, score_a) ==
  rating_a
  + Cardinality({n \in 1..Len(EloBreaks) : EloBreaks[n] <= rating_b - rating_a})
  - (k_factor * (2 - score_a)) \div 2

\* "Calculate new ratings": both from the ratings before the battle
NewRatings(old_a, old_b, score_a) ==
  << update_elo(old_a, old_b, score_a), update_elo(old_b, old_a, 2 - score_a) >>

(***************************************************************************)
(* ProjectManager.submit_battle: the ELO update of one pairing.  Returns   *)
(* the project it saved and the battle record, or the project untouched    *)
(* and NoRecord when an item is not in the project.                        *)
(***************************************************************************)
submit_battle(proj, item_a_id, item_b_id, result) ==
  IF item_a_id \notin DOMAIN proj.items \/ item_b_id \notin DOMAIN proj.items
  THEN [project |-> proj, battle_record |-> NoRecord]
  ELSE
    LET score_a == CASE result = "a_wins" -> 2 [] result = "b_wins" -> 0 [] OTHER -> 1
        score_b == 2 - score_a
        old_a == proj.items[item_a_id].rating
        old_b == proj.items[item_b_id].rating
        new_a == NewRatings(old_a, old_b, score_a)[1]
        new_b == NewRatings(old_a, old_b, score_a)[2]
        rated == [[proj.items EXCEPT ![item_a_id].rating = new_a]
                     EXCEPT ![item_b_id].rating = new_b]
        stats_a == [rated EXCEPT ![item_a_id].wins = @ + score_a \div 2,
                                 ![item_a_id].losses = @ + score_b \div 2]
        stats_b == [stats_a EXCEPT ![item_b_id].wins = @ + score_b \div 2,
                                   ![item_b_id].losses = @ + score_a \div 2]
        battle_record ==
          [id |-> Len(proj.battle_history) + 1,
           item_a_id |-> item_a_id, item_b_id |-> item_b_id,
           winner_id |-> CASE result = "a_wins" -> item_a_id
                           [] result = "b_wins" -> item_b_id
                           [] OTHER -> None,
           ratings_before |-> <<old_a, old_b>>,
           ratings_after |-> <<new_a, new_b>>]
    IN [project |-> [proj EXCEPT !.items = stats_b,
                                 !.battle_history = Append(@, battle_record)],
        battle_record |-> battle_record]

\* ProjectManager.delete_item
delete_item(proj, item_id) ==
  [proj EXCEPT !.items = [i \in (DOMAIN proj.items) \ {item_id} |-> proj.items[i]]]

(***************************************************************************)
(* TournamentManager.create_tournament                                     *)
(***************************************************************************)
\* a sort that puts, among equal ratings, the later id of the input first
SeedingTiesReversed(items, item_ids) ==
  LET n == Len(item_ids)
      before(p, q) == \/ items[item_ids[q]].rating > items[item_ids[p]].rating
                      \/ /\ items[item_ids[q]].rating = items[item_ids[p]].rating
                         /\ q > p
      rank(p) == Cardinality({q \in 1..n : before(p, q)})
  IN [s \in 0..(n - 1) |-> item_ids[CHOOSE p \in 1..n : rank(p) = s]]

\* items_with_rating.sort(key=rating, reverse=True): stable, so an id's
\* position is the number of ids that come before it in the sorted list
Seeding(items, item_ids) ==
  LET n == Len(item_ids)
      before(p, q) == \/ items[item_ids[q]].rating > items[item_ids[p]].rating
                      \/ /\ items[item_ids[q]].rating = items[item_ids[p]].rating
                         /\ q < p
      rank(p) == Cardinality({q \in 1..n : before(p, q)})
  IN [s \in 0..(n - 1) |-> item_ids[CHOOSE p \in 1..n : rank(p) = s]]

NewTournament(items, item_ids) ==
  LET seeding == Seeding(items, item_ids)
  IN [status |-> "in_progress",
      participants |-> item_ids,
      seeding |-> seeding,
      winners_bracket |->
        [r \in 0..3 |-> [i \in 0..(WBSize[r] - 1) |->
           IF r = 0
           THEN _create_match(<<"w", r, i>>, seeding[SEED_MATCHUPS[i][1]],
                              seeding[SEED_MATCHUPS[i][2]])
           ELSE _create_match(<<"w", r, i>>, None, None)]],
      losers_bracket |->
        [r \in 0..5 |-> [i \in 0..(LBSize[r] - 1) |->
           _create_match(<<"l", r, i>>, None, None)]],
      grand_final |-> [match |-> _create_match(GFLoc, None, None),
                       reset_match |-> NoMatch],
      champion_id |-> None,
      results |-> NoResults,
      match_count |-> 0,
      total_matches |-> BaseMatches]

\* create_tournament that lets a list of more than 16 ids through
CreateAtLeastSixteen(proj, item_ids) ==
  IF Len(item_ids) < NumParticipants THEN proj
  ELSE IF \E p \in 1..Len(item_ids) : item_ids[p] \notin DOMAIN proj.items THEN proj
  ELSE [proj EXCEPT !.tournament = NewTournament(proj.items, item_ids)]

\* None when the count is not 16 or an id is unknown; else the saved project
create_tournament(proj, item_ids) ==
  IF Len(item_ids) # NumParticipants THEN proj
  ELSE IF \E p \in 1..Len(item_ids) : item_ids[p] \notin DOMAIN proj.items THEN proj
  ELSE [proj EXCEPT !.tournament = NewTournament(proj.items, item_ids)]

(***************************************************************************)
(* Access to the matches of a tournament by place.                         *)
(***************************************************************************)
MatchAt(t, loc) ==
  CASE loc[1] = "w" -> t.winners_bracket[loc[2]][loc[3]]
    [] loc[1] = "l" -> t.losers_bracket[loc[2]][loc[3]]
    [] loc[1] = "gf" -> t.grand_final.match
    [] OTHER -> t.grand_final.reset_match

\* next_match['item_a_id'] = item_id at the given place
SetItemA(t, loc, item_id) ==
  CASE loc[1] = "w" -> [t EXCEPT !.winners_bracket[loc[2]][loc[3]].item_a_id = item_id]
    [] loc[1] = "l" -> [t EXCEPT !.losers_bracket[loc[2]][loc[3]].item_a_id = item_id]
    [] OTHER -> [t EXCEPT !.grand_final.match.item_a_id = item_id]

\* next_match['item_b_id'] = item_id at the given place
SetItemB(t, loc, item_id) ==
  CASE loc[1] = "w" -> [t EXCEPT !.winners_bracket[loc[2]][loc[3]].item_b_id = item_id]
    [] loc[1] = "l" -> [t EXCEPT !.losers_bracket[loc[2]][loc[3]].item_b_id = item_id]
    [] OTHER -> [t EXCEPT !.grand_final.match.item_b_id = item_id]

\* match_ref['winner_id'], ['loser_id'], ['battle_id'] = ... at the given place
SetResult(t, loc, winner_id, loser_id, battle_id) ==
  LET done(m) == [m EXCEPT !.winner_id = winner_id, !.loser_id = loser_id,
                           !.battle_id = battle_id]
  IN CASE loc[1] = "w" -> [t EXCEPT !.winners_bracket[loc[2]][loc[3]] = done(@)]
       [] loc[1] = "l" -> [t EXCEPT !.losers_bracket[loc[2]][loc[3]] = done(@)]
       [] loc[1] = "gf" -> [t EXCEPT !.grand_final.match = done(@)]
       [] OTHER -> [t EXCEPT !.grand_final.reset_match = done(@)]

\* the places that hold a match: the reset match only once it exists
Locations(t) ==
  WBLocs \cup LBLocs \cup {GFLoc}
  \cup (IF t.grand_final.reset_match # NoMatch THEN {ResetLoc} ELSE {})

\* _find_match: the place of the match with this id, NoLocation if there is none
_find_match(t, match_id) ==
  LET hits == {loc \in Locations(t) : MatchAt(t, loc).id = match_id}
  IN IF hits = {} THEN NoLocation ELSE CHOOSE loc \in hits : TRUE
(***************************************************************************)
(* Bracket advancement.                                                    *)
(***************************************************************************)
\* _advance_winners_bracket with the parity test of the winner's slot inverted
AdvanceWinnersParityInverted(t, round_idx, match_idx, winner_id, loser_id) ==
  LET won ==
        IF round_idx < 3
        THEN IF match_idx % 2 = 1
             THEN SetItemA(t, <<"w", round_idx + 1, match_idx \div 2>>, winner_id)
             ELSE SetItemB(t, <<"w", round_idx + 1, match_idx \div 2>>, winner_id)
        ELSE SetItemA(t, GFLoc, winner_id)
  IN CASE round_idx = 0 ->
            IF match_idx % 2 = 0
            THEN SetItemA(won, <<"l", 0, match_idx \div 2>>, loser_id)
            ELSE SetItemB(won, <<"l", 0, match_idx \div 2>>, loser_id)
       [] round_idx = 1 -> SetItemB(won, <<"l", 1, match_idx>>, loser_id)
       [] round_idx = 2 -> SetItemB(won, <<"l", 3, match_idx>>, loser_id)
       [] round_idx = 3 -> SetItemB(won, <<"l", 5, 0>>, loser_id)
       [] OTHER -> won

\* _advance_winners_bracket that drops the semifinal losers into LB round 2
AdvanceWinnersSemifinalEarly(t, round_idx, match_idx, winner_id, loser_id) ==
  LET won ==
        IF round_idx < 3
        THEN IF match_idx % 2 = 0
             THEN SetItemA(t, <<"w", round_idx + 1, match_idx \div 2>>, winner_id)
             ELSE SetItemB(t, <<"w", round_idx + 1, match_idx \div 2>>, winner_id)
        ELSE SetItemA(t, GFLoc, winner_id)
  IN CASE round_idx = 0 ->
            IF match_idx % 2 = 0
            THEN SetItemA(won, <<"l", 0, match_idx \div 2>>, loser_id)
            ELSE SetItemB(won, <<"l", 0, match_idx \div 2>>, loser_id)
       [] round_idx = 1 -> SetItemB(won, <<"l", 1, match_idx>>, loser_id)
       [] round_idx = 2 -> SetItemB(won, <<"l", 2, match_idx>>, loser_id)
       [] round_idx = 3 -> SetItemB(won, <<"l", 5, 0>>, loser_id)
       [] OTHER -> won

\* _advance_winners_bracket that puts the round-1 losers into item_a of LB
\* round 1, the slot of the LB round-0 winners
AdvanceWinnersLoserToA(t, round_idx, match_idx, winner_id, loser_id) ==
  LET won ==
        IF round_idx < 3
        THEN IF match_idx % 2 = 0
             THEN SetItemA(t, <<"w", round_idx + 1, match_idx \div 2>>, winner_id)
             ELSE SetItemB(t, <<"w", round_idx + 1, match_idx \div 2>>, winner_id)
        ELSE SetItemA(t, GFLoc, winner_id)
  IN CASE round_idx = 0 ->
            IF match_idx % 2 = 0
            THEN SetItemA(won, <<"l", 0, match_idx \div 2>>, loser_id)
            ELSE SetItemB(won, <<"l", 0, match_idx \div 2>>, loser_id)
       [] round_idx = 1 -> SetItemA(won, <<"l", 1, match_idx>>, loser_id)
       [] round_idx = 2 -> SetItemB(won, <<"l", 3, match_idx>>, loser_id)
       [] round_idx = 3 -> SetItemB(won, <<"l", 5, 0>>, loser_id)
       [] OTHER -> won

\* _advance_winners_bracket that sends the loser of the WB final straight to
\* the grand final
AdvanceWinnersFinalLoserToGrandFinal(t, round_idx, match_idx, winner_id, loser_id) ==
  LET won ==
        IF round_idx < 3
        THEN IF match_idx % 2 = 0
             THEN SetItemA(t, <<"w", round_idx + 1, match_idx \div 2>>, winner_id)
             ELSE SetItemB(t, <<"w", round_idx + 1, match_idx \div 2>>, winner_id)
        ELSE SetItemA(t, GFLoc, winner_id)
  IN CASE round_idx = 0 ->
            IF match_idx % 2 = 0
            THEN SetItemA(won, <<"l", 0, match_idx \div 2>>, loser_id)
            ELSE SetItemB(won, <<"l", 0, match_idx \div 2>>, loser_id)
       [] round_idx = 1 -> SetItemB(won, <<"l", 1, match_idx>>, loser_id)
       [] round_idx = 2 -> SetItemB(won, <<"l", 3, match_idx>>, loser_id)
       [] round_idx = 3 -> SetItemB(won, GFLoc, loser_id)
       [] OTHER -> won

\* _advance_winners_bracket that drops the winner of a WB round-0 match into
\* the losers bracket, in place of the loser
AdvanceWinnersDropsWinner(t, round_idx, match_idx, winner_id, loser_id) ==
  LET won ==
        IF round_idx < 3
        THEN IF match_idx % 2 = 0
             THEN SetItemA(t, <<"w", round_idx + 1, match_idx \div 2>>, winner_id)
             ELSE SetItemB(t, <<"w", round_idx + 1, match_idx \div 2>>, winner_id)
        ELSE SetItemA(t, GFLoc, winner_id)
  IN CASE round_idx = 0 ->
            IF match_idx % 2 = 0
            THEN SetItemA(won, <<"l", 0, match_idx \div 2>>, winner_id)
            ELSE SetItemB(won, <<"l", 0, match_idx \div 2>>, winner_id)
       [] round_idx = 1 -> SetItemB(won, <<"l", 1, match_idx>>, loser_id)
       [] round_idx = 2 -> SetItemB(won, <<"l", 3, match_idx>>, loser_id)
       [] round_idx = 3 -> SetItemB(won, <<"l", 5, 0>>, loser_id)
       [] OTHER -> won

\* _advance_winners_bracket: winner to the next WB round, loser to the LB
_advance_winners_bracket(t, round_idx, match_idx, winner_id, loser_id) ==
  LET won ==
        IF round_idx < 3
        THEN IF match_idx % 2 = 0
             THEN SetItemA(t, <<"w", round_idx + 1, match_idx \div 2>>, winner_id)
             ELSE SetItemB(t, <<"w", round_idx + 1, match_idx \div 2>>, winner_id)
        ELSE SetItemA(t, GFLoc, winner_id)
  IN CASE round_idx = 0 ->
            IF match_idx % 2 = 0
            THEN SetItemA(won, <<"l", 0, match_idx \div 2>>, loser_id)
            ELSE SetItemB(won, <<"l", 0, match_idx \div 2>>, loser_id)
       [] round_idx = 1 -> SetItemB(won, <<"l", 1, match_idx>>, loser_id)
       [] round_idx = 2 -> SetItemB(won, <<"l", 3, match_idx>>, loser_id)
       [] round_idx = 3 -> SetItemB(won, <<"l", 5, 0>>, loser_id)
       [] OTHER -> won

\* _advance_losers_bracket that sends every LB round 4 winner to item_a
AdvanceLosersRoundFourToA(t, round_idx, match_idx, winner_id) ==
  CASE round_idx = 0 -> SetItemA(t, <<"l", 1, match_idx>>, winner_id)
    [] round_idx = 1 ->
         IF match_idx % 2 = 0
         THEN SetItemA(t, <<"l", 2, match_idx \div 2>>, winner_id)
         ELSE SetItemB(t, <<"l", 2, match_idx \div 2>>, winner_id)
    [] round_idx = 2 -> SetItemA(t, <<"l", 3, match_idx>>, winner_id)
    [] round_idx = 3 -> SetItemA(t, <<"l", 4, match_idx \div 2>>, winner_id)
    [] round_idx = 4 -> SetItemA(t, <<"l", 5, 0>>, winner_id)
    [] round_idx = 5 -> SetItemB(t, GFLoc, winner_id)
    [] OTHER -> t

\* _advance_losers_bracket: winner forward within the losers bracket
_advance_losers_bracket(t, round_idx, match_idx, winner_id) ==
  CASE round_idx = 0 -> SetItemA(t, <<"l", 1, match_idx>>, winner_id)
    [] round_idx = 1 ->
         IF match_idx % 2 = 0
         THEN SetItemA(t, <<"l", 2, match_idx \div 2>>, winner_id)
         ELSE SetItemB(t, <<"l", 2, match_idx \div 2>>, winner_id)
    [] round_idx = 2 -> SetItemA(t, <<"l", 3, match_idx>>, winner_id)
    [] round_idx = 3 ->
         IF match_idx % 2 = 0
         THEN SetItemA(t, <<"l", 4, match_idx \div 2>>, winner_id)
         ELSE SetItemB(t, <<"l", 4, match_idx \div 2>>, winner_id)
    [] round_idx = 4 -> SetItemA(t, <<"l", 5, 0>>, winner_id)
    [] round_idx = 5 -> SetItemB(t, GFLoc, winner_id)
    [] OTHER -> t

\* _handle_grand_final that creates the reset match and leaves total_matches
ResetWithoutTotal(t, match) ==
  LET wb_champion_id == t.grand_final.match.item_a_id
  IN IF match.winner_id # wb_champion_id
     THEN [t EXCEPT !.grand_final.reset_match =
                      _create_match(<<"resetmatch", t.match_count, 0>>,
                                    wb_champion_id, match.winner_id)]
     ELSE t

\* _handle_grand_final: a reset match when the winner is not the WB champion
_handle_grand_final(t, match) ==
  LET wb_champion_id == t.grand_final.match.item_a_id
  IN IF match.winner_id # wb_champion_id
     THEN [t EXCEPT !.grand_final.reset_match =
                      _create_match(<<"resetmatch", t.match_count, 0>>,
                                    wb_champion_id, match.winner_id),
                    !.total_matches = ResetMatches]
     ELSE t

\* _advance_bracket: by the bracket the match is in; nothing for the reset match
_advance_bracket(t, location, match) ==
  CASE location[1] = "w" ->
         _advance_winners_bracket(t, location[2], location[3],
                                  match.winner_id, match.loser_id)
    [] location[1] = "l" ->
         _advance_losers_bracket(t, location[2], location[3], match.winner_id)
    [] location[1] = "gf" -> _handle_grand_final(t, match)
    [] OTHER -> t

\* _is_complete
_is_complete(t) ==
  LET gf == t.grand_final
  IN IF gf.match.winner_id = None THEN FALSE
     ELSE IF gf.match.winner_id = gf.match.item_a_id THEN TRUE
     ELSE gf.reset_match # NoMatch /\ gf.reset_match.winner_id # None

\* the completion step that takes the champion from the grand final alone
CompleteByGrandFinal(t) ==
  IF _is_complete(t)
  THEN [t EXCEPT !.status = "completed",
                 !.champion_id = t.grand_final.match.winner_id,
                 !.results = <<t.grand_final.match.winner_id,
                               t.grand_final.match.loser_id>>]
  ELSE t

\* submit_tournament_match, "Check if tournament is complete"
Complete(t) ==
  IF _is_complete(t)
  THEN LET gf == t.grand_final
           reset == gf.reset_match
           by_reset == reset # NoMatch /\ reset.winner_id # None
           champion_id == IF by_reset THEN reset.winner_id ELSE gf.match.winner_id
           runner_up == IF by_reset THEN reset.loser_id ELSE gf.match.loser_id
       IN [t EXCEPT !.status = "completed",
                    !.champion_id = champion_id,
                    !.results = <<champion_id, runner_up>>]
  ELSE t

(***************************************************************************)
(* TournamentManager.get_next_match: the place of the first playable match *)
(* in PLAY_ORDER, NoLocation for None.                                     *)
(***************************************************************************)
\* the test of the 'w', 'l' and 'gf' branches
Unplayed(match) ==
  match.winner_id = None /\ match.item_a_id # None /\ match.item_b_id # None

\* get_next_match without its 'reset' branch
ResetNeverPending(reset) == FALSE

\* the test of the 'reset' branch
ResetPending(reset) == reset # NoMatch /\ reset.winner_id = None

\* the places of one PLAY_ORDER entry that pass the branch's test
Candidates(t, stage) ==
  LET bracket_type == PLAY_ORDER[stage][1]
      round_idx == PLAY_ORDER[stage][2]
  IN CASE bracket_type = "w" ->
            {<<"w", round_idx, i>> : i \in {j \in 0..(WBSize[round_idx] - 1) :
                 Unplayed(t.winners_bracket[round_idx][j])}}
       [] bracket_type = "l" ->
            {<<"l", round_idx, i>> : i \in {j \in 0..(LBSize[round_idx] - 1) :
                 Unplayed(t.losers_bracket[round_idx][j])}}
       [] bracket_type = "gf" ->
            IF Unplayed(t.grand_final.match) THEN {GFLoc} ELSE {}
       [] OTHER ->
            IF ResetPending(t.grand_final.reset_match) THEN {ResetLoc} ELSE {}

\* a scan that keeps the last candidate of the round instead of the first
LastMatch(found) == CHOOSE loc \in found : \A l2 \in found : loc[3] >= l2[3]

\* enumerate(round_matches): the candidate with the lowest match_idx
FirstMatch(found) == CHOOSE loc \in found : \A l2 \in found : loc[3] <= l2[3]

\* for bracket_type, round_idx in PLAY_ORDER: the first entry with a candidate
FirstStage(t, stages) ==
  IF stages = {} THEN NoLocation
  ELSE FirstMatch(Candidates(t, CHOOSE s \in stages : \A s2 \in stages : s <= s2))

get_next_match(t) ==
  IF t.status = "completed" THEN NoLocation
  ELSE FirstStage(t, {s \in 1..Len(PLAY_ORDER) : Candidates(t, s) # {}})

\* the 'bracket' of the dict get_next_match returns, by bracket_type
BracketName(bracket_type) ==
  CASE bracket_type = "w" -> "winners"
    [] bracket_type = "l" -> "losers"
    [] bracket_type = "gf" -> "grand_final"
    [] OTHER -> "reset"

\* the dict get_next_match returns: the match and its context; NoRecord for None
NextMatch(t) ==
  LET loc == get_next_match(t)
  IN IF loc = NoLocation THEN NoRecord
     ELSE [id |-> MatchAt(t, loc).id,
           match |-> MatchAt(t, loc),
           bracket |-> BracketName(loc[1]),
           round_idx |-> loc[2],
           match_idx |-> loc[3],
           match_number |-> loc[3] + 1]

(***************************************************************************)
(* TournamentManager.submit_tournament_match.  Returns the project as it   *)
(* is persisted when the call returns, and the battle record it returns.   *)
(***************************************************************************)
\* the early returns without the test of tournament['status']
RejectedIgnoringStatus(t, match_id) == _find_match(t, match_id) = NoLocation

\* the early returns: tournament completed, or no match with this id
Rejected(t, match_id) ==
  t.status = "completed" \/ _find_match(t, match_id) = NoLocation

\* "Determine winner/loser": the match as the first load holds it, with result
Decide(match, winner_side) ==
  IF winner_side = "a"
  THEN [match EXCEPT !.winner_id = match.item_a_id, !.loser_id = match.item_b_id]
  ELSE [match EXCEPT !.winner_id = match.item_b_id, !.loser_id = match.item_a_id]

\* what follows submit_battle: re-load, write the result, advance, complete
Record(t, location, match, battle_record) ==
  LET battle_id == IF battle_record # NoRecord THEN battle_record.id
                   ELSE match.battle_id
      written == SetResult(t, location, match.winner_id, match.loser_id, battle_id)
      counted == [written EXCEPT !.match_count = @ + 1]
      decided == [match EXCEPT !.battle_id = battle_id]
  IN Complete(_advance_bracket(counted, location, decided))

\* "Re-load project since submit_battle saved it" up to the final save
Finish(battle, location, match) ==
  [project |-> [battle.project EXCEPT !.tournament =
                  Record(battle.project.tournament, location, match,
                         battle.battle_record)],
   battle_record |-> battle.battle_record]

\* "Submit to ELO system" and what follows, for the match found
Play(proj, location, match, winner_side) ==
  Finish(submit_battle(proj, match.item_a_id, match.item_b_id,
                       IF winner_side = "a" THEN "a_wins" ELSE "b_wins"),
         location, match)

\* the part after "Find the match"
Found(proj, location, winner_side) ==
  Play(proj, location, Decide(MatchAt(proj.tournament, location), winner_side),
       winner_side)

submit_tournament_match(proj, match_id, winner_side) ==
  IF Rejected(proj.tournament, match_id)
  THEN [project |-> proj, battle_record |-> NoRecord]
  ELSE Found(proj, _find_match(proj.tournament, match_id), winner_side)
(***************************************************************************)
(* State.                                                                  *)
(*   project    the persisted project: items, battle_history, tournament   *)
(*   prev       the persisted project when the last request arrived        *)
(*   call       the last request, what it returned, and what               *)
(*              get_next_match gave when it arrived                        *)
(*   offscript  requests so far that were off the script                   *)
(*   inflight   for each worker, the submit_tournament_match call it is    *)
(*              in the middle of: its position and its local variables     *)
(***************************************************************************)
VARIABLES project, prev, call, offscript, inflight

vars == <<project, prev, call, offscript, inflight>>

\* the workers that serve requests
Procs == {"p", "q"}

\* a worker that has not started a call
Idle == [pc |-> "idle"]

\* the values of winner_side the API route lets through
Sides == {"a", "b"}

\* project['tournaments'] before create_tournament
NoTournament == [status |-> "none"]

\* the id of the tournament of the project, and the ids a caller may give
TournamentId == "tourn"
TournamentIds == {TournamentId, "tourn_other"}

\* a lookup that gives the project's tournament whatever id is asked for
AnyTournament(proj, tournament_id) == proj.tournament

\* project.get('tournaments', {}).get(tournament_id)
Stored(proj, tournament_id) ==
  IF tournament_id = TournamentId THEN proj.tournament ELSE NoTournament

\* submit_tournament_match with its tournament_id: None when the project has
\* no tournament of this id
SubmitIn(proj, tournament_id, match_id, winner_side) ==
  IF Stored(proj, tournament_id) = NoTournament
  THEN [project |-> proj, battle_record |-> NoRecord]
  ELSE submit_tournament_match(proj, match_id, winner_side)

\* add_item: a new item with the given rating
NewItem(rating) == [rating |-> rating, wins |-> 0, losses |-> 0]

\* the ratings the sixteen items have when the tournament is created
RatingProfiles ==
  { [i \in ItemIds |-> default_rating + 25 * ((i * 7) % 5)] }

\* the ids given to create_tournament, in the order given
InputOrder == [p \in 1..NumParticipants |-> p]

Init ==
  /\ \E ratings \in RatingProfiles :
       project = create_tournament(
                   [items |-> [i \in ItemIds |-> NewItem(ratings[i])],
                    battle_history |-> <<>>,
                    tournament |-> NoTournament],
                   InputOrder)
  /\ prev = project
  /\ call = [op |-> "create_tournament", match_id |-> NoLocation,
             winner_side |-> "", returned |-> None, next |-> NoLocation]
  /\ offscript = 0
  /\ inflight = [p \in Procs |-> Idle]

\* the PLAY_ORDER position of the stage a place belongs to
StageOf(loc) == CHOOSE s \in 1..Len(PLAY_ORDER) : PLAY_ORDER[s] = <<loc[1], loc[2]>>

\* whether a result of this side for the match at loc is on the script
OnScript(loc, winner_side) ==
  IF winner_side = "a" THEN TRUE
  ELSE StageOf(loc) > Len(PLAY_ORDER) - FreeStages

\* the id of the match at a place; of no match for NoLocation
IdAt(t, loc) == IF loc = NoLocation THEN NoLocation ELSE MatchAt(t, loc).id

\* the ids a client may send: those of the matches of the tournament, and an
\* id that no match has
MatchIds(t) == {MatchAt(t, loc).id : loc \in Locations(t)} \cup {UnknownId}

\* whether get_next_match has reached the free stages (or finds no match)
InFreeStages(next) ==
  IF next = NoLocation THEN TRUE
  ELSE StageOf(next) > Len(PLAY_ORDER) - FreeStages

\* the request POST .../match with this match_id and winner_side
Respond(out, match_id, winner_side, next) ==
  /\ project' = out.project
  /\ prev' = project
  /\ call' = [op |-> "submit", tournament_id |-> TournamentId,
              match_id |-> match_id,
              winner_side |-> winner_side,
              returned |-> out.battle_record.id,
              next |-> next]
  /\ UNCHANGED inflight

Submit(match_id, winner_side, next) ==
  Respond(submit_tournament_match(project, match_id, winner_side),
          match_id, winner_side, next)

\* the play page: submit a result for the match get_next_match returns
SubmitNextIf(may_leave_script) ==
  \E next \in {get_next_match(project.tournament)} :
     /\ next # NoLocation
     /\ \E winner_side \in Sides :
          /\ IF OnScript(next, winner_side) THEN TRUE ELSE may_leave_script
          /\ Submit(IdAt(project.tournament, next), winner_side, next)
          /\ offscript' = IF OnScript(next, winner_side) THEN offscript
                          ELSE offscript + 1

\* a result for any other match id the client may send, whatever the state
\* of the match
SubmitOtherIf(may_leave_script) ==
  \E next \in {get_next_match(project.tournament)} :
     /\ may_leave_script
     /\ \E match_id \in MatchIds(project.tournament) :
          /\ match_id # IdAt(project.tournament, next)
          /\ \E winner_side \in Sides : Submit(match_id, winner_side, next)
     /\ offscript' = offscript + 1

SubmitNext == SubmitNextIf(offscript < MaxOffScript)

SubmitOther == SubmitOtherIf(offscript < MaxOffScript)

\* a result for a playable match other than the one get_next_match returns
SubmitPlayable ==
  \E next \in {get_next_match(project.tournament)} :
     /\ offscript < MaxOffScript
     /\ project.tournament.status # "completed"
     /\ \E loc \in Locations(project.tournament) :
          /\ loc # next
          /\ Unplayed(MatchAt(project.tournament, loc))
          /\ \E winner_side \in Sides :
               Submit(IdAt(project.tournament, loc), winner_side, next)
     /\ offscript' = offscript + 1

\* the request DELETE .../items/<item_id>
DeleteItem ==
  /\ offscript < MaxOffScript
  /\ \E item_id \in DOMAIN project.items :
       /\ project' = delete_item(project, item_id)
       /\ call' = [op |-> "delete_item", match_id |-> NoLocation,
                   winner_side |-> "", returned |-> None,
                   next |-> get_next_match(project.tournament)]
  /\ prev' = project
  /\ offscript' = offscript + 1
  /\ UNCHANGED inflight

\* any sequence of requests
Next == SubmitNext \/ SubmitOther \/ DeleteItem

Spec == Init /\ [][Next]_vars

\* only playable matches are submitted, in any order
NextPlayable == SubmitNext \/ SubmitPlayable

SpecPlayable == Init /\ [][NextPlayable]_vars

\* every submission is for the match get_next_match returns
NextInOrder == SubmitNext

SpecInOrder == Init /\ [][NextInOrder]_vars

\* the script through the early stages
SubmitEarly ==
  \E next \in {get_next_match(project.tournament)} :
     /\ IF next = NoLocation THEN FALSE ELSE ~InFreeStages(next)
     /\ Submit(IdAt(project.tournament, next), "a", next)
     /\ UNCHANGED offscript

\* the ids of the matches of the free stages
FinalIds(t) ==
  {MatchAt(t, loc).id :
     loc \in {l \in Locations(t) : StageOf(l) > Len(PLAY_ORDER) - FreeStages}}

\* then results for the matches of the free stages, in any order, for either
\* side, decided or not
SubmitFinal ==
  \E next \in {get_next_match(project.tournament)} :
     /\ offscript < MaxFinals
     /\ InFreeStages(next)
     /\ \E match_id \in FinalIds(project.tournament) :
          \E winner_side \in Sides : Submit(match_id, winner_side, next)
     /\ offscript' = offscript + 1

NextFinals == SubmitEarly \/ SubmitFinal

SpecFinals == Init /\ [][NextFinals]_vars

(***************************************************************************)
(* Two workers, each serving one submit_tournament_match call for a        *)
(* playable match, step by step.  Each get_project and each _save_project  *)
(* is taken as one step here (the steps of load_json and save_json         *)
(* themselves are in the file store section); nothing is held between them.*)
(***************************************************************************)
\* get_project, the early returns, _find_match, "Determine winner/loser"
Begin(p) ==
  /\ inflight[p].pc = "idle"
  /\ \E location \in Locations(project.tournament), winner_side \in Sides :
       /\ Unplayed(MatchAt(project.tournament, location))
       /\ \A q \in Procs \ {p} :
            IF inflight[q].pc = "idle" THEN TRUE
            ELSE inflight[q].location # location
       /\ ~Rejected(project.tournament, IdAt(project.tournament, location))
       /\ inflight' = [inflight EXCEPT ![p] =
            [pc |-> "found",
             match_id |-> IdAt(project.tournament, location),
             winner_side |-> winner_side,
             location |-> location,
             match |-> Decide(MatchAt(project.tournament, location), winner_side),
             loaded |-> project,
             battle_record |-> NoRecord]]
  /\ UNCHANGED <<project, prev, call, offscript>>

\* submit_battle: its get_project
BattleLoad(p) ==
  /\ inflight[p].pc = "found"
  /\ inflight' = [inflight EXCEPT ![p].pc = "battle", ![p].loaded = project]
  /\ UNCHANGED <<project, prev, call, offscript>>

\* submit_battle: the update of what it loaded, and its _save_project
BattleSaved(p, battle) ==
  /\ project' = IF battle.battle_record = NoRecord THEN project ELSE battle.project
  /\ inflight' = [inflight EXCEPT ![p].pc = "battled",
                                  ![p].battle_record = battle.battle_record]

BattleSave(p) ==
  /\ inflight[p].pc = "battle"
  /\ BattleSaved(p, submit_battle(inflight[p].loaded,
                                  inflight[p].match.item_a_id,
                                  inflight[p].match.item_b_id,
                                  IF inflight[p].winner_side = "a"
                                  THEN "a_wins" ELSE "b_wins"))
  /\ UNCHANGED <<prev, call, offscript>>

\* "Re-load project since submit_battle saved it"
Reload(p) ==
  /\ inflight[p].pc = "battled"
  /\ inflight' = [inflight EXCEPT ![p].pc = "reloaded", ![p].loaded = project]
  /\ UNCHANGED <<project, prev, call, offscript>>

\* the result written into what was re-loaded, and the final _save_project
Save(p) ==
  /\ inflight[p].pc = "reloaded"
  /\ project' = [inflight[p].loaded EXCEPT !.tournament =
                   Record(inflight[p].loaded.tournament, inflight[p].location,
                          inflight[p].match, inflight[p].battle_record)]
  /\ inflight' = [inflight EXCEPT ![p].pc = "returned"]
  /\ UNCHANGED <<prev, call, offscript>>

NextConcurrent ==
  \E p \in Procs : Begin(p) \/ BattleLoad(p) \/ BattleSave(p) \/ Reload(p) \/ Save(p)

SpecConcurrent == Init /\ [][NextConcurrent]_vars
(***************************************************************************)
(* ProjectManager.submit_battle on a project of two items, for any pairing *)
(* of them and any of the three results.                                   *)
(***************************************************************************)
\* battles in one run
MaxBattles == 3

\* how far the second item's rating is from the first's at the start
RatingGaps == {0, 5, 11, 100, 400, 720, 1000}

\* the values of result the battle route lets through
Results == {"a_wins", "b_wins", "tie"}

InitBattles ==
  /\ \E gap \in RatingGaps :
       project = [items |-> <<NewItem(default_rating), NewItem(default_rating + gap)>>,
                  battle_history |-> <<>>,
                  tournament |-> NoTournament]
  /\ prev = project
  /\ call = [op |-> "none"]
  /\ offscript = 0
  /\ inflight = [p \in Procs |-> Idle]

\* the request POST .../battle
Battled(out, item_a_id, item_b_id, result) ==
  /\ project' = out.project
  /\ prev' = project
  /\ call' = [op |-> "battle", item_a_id |-> item_a_id, item_b_id |-> item_b_id,
              result |-> result, returned |-> out.battle_record.id]
  /\ UNCHANGED <<offscript, inflight>>

Battle ==
  /\ Len(project.battle_history) < MaxBattles
  /\ \E item_a_id, item_b_id \in DOMAIN project.items, result \in Results :
       Battled(submit_battle(project, item_a_id, item_b_id, result),
               item_a_id, item_b_id, result)

NextBattles == Battle

SpecBattles == InitBattles /\ [][NextBattles]_vars

(***************************************************************************)
(* TournamentManager.get_bracket_display.  The name of an item is the one  *)
(* add_item stored for it; no operation here changes it.                   *)
(***************************************************************************)
\* item['name'] of the item with this id
ItemName(item_id) == ToString(item_id)

\* a lookup project['items'][item_id]['name'] without the test that the id is
\* an item of the project: Python's KeyError for an id that is not
NameUnchecked(proj, item_id) ==
  IF item_id = None THEN ""
  ELSE IF item_id \in DOMAIN proj.items THEN ItemName(item_id) ELSE "KeyError"

\* '' unless the id is set and is an item of the project
Name(proj, item_id) ==
  IF item_id # None /\ item_id \in DOMAIN proj.items THEN ItemName(item_id) ELSE ""

\* enrich_match: a copy of the match with the three names added
enrich_match(proj, match) ==
  [id |-> match.id, item_a_id |-> match.item_a_id, item_b_id |-> match.item_b_id,
   winner_id |-> match.winner_id, loser_id |-> match.loser_id,
   battle_id |-> match.battle_id,
   item_a_name |-> Name(proj, match.item_a_id),
   item_b_name |-> Name(proj, match.item_b_id),
   winner_name |-> Name(proj, match.winner_id)]

get_bracket_display(t, proj) ==
  [tournament |-> t,
   winners_bracket |->
     [r \in DOMAIN t.winners_bracket |->
        [i \in DOMAIN t.winners_bracket[r] |-> enrich_match(proj, t.winners_bracket[r][i])]],
   losers_bracket |->
     [r \in DOMAIN t.losers_bracket |->
        [i \in DOMAIN t.losers_bracket[r] |-> enrich_match(proj, t.losers_bracket[r][i])]],
   grand_final |->
     [match |-> enrich_match(proj, t.grand_final.match),
      reset_match |-> IF t.grand_final.reset_match # NoMatch
                      THEN enrich_match(proj, t.grand_final.reset_match)
                      ELSE NoMatch],
   champion_name |-> Name(proj, t.champion_id),
   match_count |-> t.match_count,
   total_matches |-> t.total_matches]

\* the request GET .../tournaments/<tournament_id>: what get_bracket_display
\* returns for the persisted project; nothing is saved
Display ==
  /\ call' = [op |-> "display",
              returned |-> get_bracket_display(project.tournament, project)]
  /\ prev' = project
  /\ UNCHANGED <<project, offscript, inflight>>

\* play in the order of get_next_match, deletions of items, and displays
NextDisplay == SubmitNext \/ DeleteItem \/ Display

SpecDisplay == Init /\ [][NextDisplay]_vars

(***************************************************************************)
(* Calls of TournamentManager.submit_tournament_match by a caller that     *)
(* does not validate its arguments: any tournament id, any match id, any   *)
(* value of winner_side.                                                   *)
(***************************************************************************)
\* values of winner_side a caller may pass: 'a', 'b' and a malformed one
AnySides == Sides \cup {"x"}

RespondIn(out, tournament_id, match_id, winner_side, next) ==
  /\ project' = out.project
  /\ prev' = project
  /\ call' = [op |-> "submit", tournament_id |-> tournament_id,
              match_id |-> match_id,
              winner_side |-> winner_side,
              returned |-> out.battle_record.id,
              next |-> next]
  /\ UNCHANGED inflight

\* a call with a tournament id the project does not have, a malformed
\* winner_side, or a match id that no match has
CallManager ==
  \E next \in {get_next_match(project.tournament)} :
     /\ offscript < MaxOffScript
     /\ \E tournament_id \in TournamentIds, winner_side \in AnySides :
          \E match_id \in MatchIds(project.tournament) :
            /\ \/ tournament_id # TournamentId
               \/ winner_side \notin Sides
               \/ match_id = UnknownId
            /\ RespondIn(SubmitIn(project, tournament_id, match_id, winner_side),
                         tournament_id, match_id, winner_side, next)
     /\ offscript' = offscript + 1

NextManager == SubmitNext \/ CallManager

SpecManager == Init /\ [][NextManager]_vars

(***************************************************************************)
(* create_tournament on a project of sixteen items that has no tournament  *)
(* yet, for lists of ids of any kind.                                      *)
(***************************************************************************)
\* the lists start at any of the first MaxShift + 1 ids
MaxShift == 7

\* an id that is not an item of the project
UnknownItem == NumParticipants + 1

\* the sixteen ids in ascending order from id k + 1 on, and in descending order
Rotated(k) == [p \in 1..NumParticipants |-> ((p + k - 1) % NumParticipants) + 1]
Reversed(k) == [p \in 1..NumParticipants |-> Rotated(k)[NumParticipants + 1 - p]]

\* the lists given as item_ids: sixteen distinct ids, sixteen ids with one
\* repeated, fifteen ids, seventeen ids, and sixteen ids with an unknown one
CreateInputs ==
  UNION {{ Rotated(k), Reversed(k),
           [Rotated(k) EXCEPT ![2] = Rotated(k)[1]],
           SubSeq(Rotated(k), 1, NumParticipants - 1),
           Append(Rotated(k), Rotated(k)[1]),
           [Rotated(k) EXCEPT ![NumParticipants] = UnknownItem] } : k \in 0..MaxShift}

\* the ratings of the items at creation: with ties, all equal, all distinct
CreateProfiles ==
  RatingProfiles
  \cup { [i \in ItemIds |-> default_rating],
         [i \in ItemIds |-> default_rating + ((i * 5) % NumParticipants)] }

InitCreate ==
  /\ \E ratings \in CreateProfiles :
       project = [items |-> [i \in ItemIds |-> NewItem(ratings[i])],
                  battle_history |-> <<>>,
                  tournament |-> NoTournament]
  /\ prev = project
  /\ call = [op |-> "none"]
  /\ offscript = 0
  /\ inflight = [p \in Procs |-> Idle]

\* the request POST .../tournaments with these item_ids
Created(out, item_ids) ==
  /\ project' = out
  /\ prev' = project
  /\ call' = [op |-> "create", item_ids |-> item_ids,
              returned |-> out.tournament # NoTournament]
  /\ UNCHANGED <<offscript, inflight>>

CreateTournament ==
  /\ call.op = "none"
  /\ \E item_ids \in CreateInputs :
       Created(create_tournament(project, item_ids), item_ids)

NextCreate == CreateTournament

SpecCreate == InitCreate /\ [][NextCreate]_vars

(***************************************************************************)
(* app/core/elo.py in Python's float arithmetic (IEEE 754 binary64, round  *)
(* to nearest, ties to even).  A float is its sign and the set of the      *)
(* exponents of the ones of its binary expansion: 0.5 is {-1}, 1.0 is {0}, *)
(* 1016.0 is {9, 8, 7, 6, 5, 4, 3}.  Every operation is the exact result   *)
(* rounded to Precision significant bits.                                  *)
(***************************************************************************)
\* significant bits of a float
Precision == 53

Float(sign, bits) == [sign |-> sign, bits |-> bits]

\* 0.0, 0.5 and 1.0
Zero == Float(1, {})
Half == Float(1, {-1})
One == Float(1, {0})

Highest(bits) == CHOOSE k \in bits : \A j \in bits : j <= k
Lowest(bits) == CHOOSE k \in bits : \A j \in bits : k <= j

\* the ones of a natural number below 2^31
BitsOfNat(n) == {k \in 0..30 : (n \div (2 ^ k)) % 2 = 1}

\* float(n) of an int n
FromInt(n) == IF n < 0 THEN Float(-1, BitsOfNat(-n)) ELSE Float(1, BitsOfNat(n))

\* whether the exact sum of two magnitudes carries into position k: some
\* lower position holds a one in both, and every position between holds a one
\* in exactly one of them
Carry(X, Y, k) ==
  \E j \in X \cap Y :
    /\ j < k
    /\ \A i \in (j + 1)..(k - 1) : (i \in X) # (i \in Y)

\* the exact sum of two magnitudes
MagAdd(X, Y) ==
  IF X = {} THEN Y
  ELSE IF Y = {} THEN X
  ELSE {k \in Lowest(X \cup Y)..(Highest(X \cup Y) + 1) :
          ((k \in X) # (k \in Y)) # Carry(X, Y, k)}

\* whether the exact difference X - Y borrows from position k: at the highest
\* lower position where the two differ, the one is in Y
Borrow(X, Y, k) ==
  LET below == {i \in (X \ Y) \cup (Y \ X) : i < k}
  IN IF below = {} THEN FALSE ELSE Highest(below) \in Y

\* the exact difference of two magnitudes, X not below Y
MagSub(X, Y) ==
  IF Y = {} THEN X
  ELSE {k \in Lowest(X \cup Y)..Highest(X) :
          ((k \in X) # (k \in Y)) # Borrow(X, Y, k)}

\* X < Y: the highest position where they differ is a one of Y
MagLess(X, Y) ==
  IF X = Y THEN FALSE ELSE Highest((X \ Y) \cup (Y \ X)) \in Y

\* round to nearest, ties to even: the magnitude cut to Precision bits
RoundBits(X) ==
  IF X = {} THEN {}
  ELSE LET last == Highest(X) - (Precision - 1)
           kept == {k \in X : k >= last}
           rest == {k \in X : k < last}
           up == /\ (last - 1) \in rest
                 /\ (rest # {last - 1} \/ last \in X)
       IN IF up THEN MagAdd(kept, {last}) ELSE kept

\* x + y
FAdd(x, y) ==
  IF x.sign = y.sign THEN Float(x.sign, RoundBits(MagAdd(x.bits, y.bits)))
  ELSE IF x.bits = y.bits THEN Zero
  ELSE IF MagLess(x.bits, y.bits)
       THEN Float(y.sign, RoundBits(MagSub(y.bits, x.bits)))
       ELSE Float(x.sign, RoundBits(MagSub(x.bits, y.bits)))

\* x - y
FSub(x, y) == FAdd(x, Float(-y.sign, y.bits))

\* the exact product of two magnitudes: X shifted by each one of Y, summed
\* (FMul takes as Y the operand with fewer ones)
RECURSIVE MagMul(_, _)
MagMul(X, Y) ==
  IF Y = {} THEN {}
  ELSE MagAdd({k + Highest(Y) : k \in X}, MagMul(X, Y \ {Highest(Y)}))

\* x * y
FMul(x, y) ==
  IF x.bits = {} \/ y.bits = {} THEN Zero
  ELSE Float(x.sign * y.sign,
             RoundBits(IF Cardinality(x.bits) < Cardinality(y.bits)
                       THEN MagMul(y.bits, x.bits)
                       ELSE MagMul(x.bits, y.bits)))

\* x < y
FLess(x, y) ==
  IF x.sign # y.sign THEN x.sign < y.sign
  ELSE IF x.sign = 1 THEN MagLess(x.bits, y.bits) ELSE MagLess(y.bits, x.bits)

\* the rating differences rating_b - rating_a for which the value of
\* expected_score is listed
ExpectedGaps ==
  {-123302, -123301, -6382, -6381, -3000, -1000, -720, -400, -211, -100, -11,
   -1, 0, 1, 11, 100, 211, 400, 720, 1000, 3000, 6381, 6382, 123301}

\* 1.0 / (1.0 + 10 ** (d / 400.0)) for d = rating_b - rating_a, as the float
\* (h * 2^27 + l) * 2^e listed as <<e, h, l>>
ExpectedScores ==
  [d \in ExpectedGaps |->
     CASE d = -123302 -> <<-52, 33554432, 0>>
       [] d = -123301 -> <<-52, 33554432, 0>>
       [] d = -6382 -> <<-52, 33554432, 0>>
       [] d = -6381 -> <<-53, 67108863, 134217726>>
       [] d = -3000 -> <<-53, 67108861, 117820543>>
       [] d = -1000 -> <<-53, 66897316, 14996770>>
       [] d = -720 -> <<-53, 66061854, 22875952>>
       [] d = -400 -> <<-53, 61008058, 24403223>>
       [] d = -211 -> <<-53, 51748602, 6569223>>
       [] d = -100 -> <<-53, 42954035, 3077860>>
       [] d = -11 -> <<-53, 34616428, 105217720>>
       [] d = -1 -> <<-53, 33651009, 20397114>>
       [] d = 0 -> <<-53, 33554432, 0>>
       [] d = 1 -> <<-54, 66915709, 93423498>>
       [] d = 11 -> <<-54, 64984870, 58000014>>
       [] d = 100 -> <<-54, 48309657, 128062009>>
       [] d = 211 -> <<-55, 61441047, 107940841>>
       [] d = 400 -> <<-56, 48806446, 73209670>>
       [] d = 720 -> <<-59, 67008629, 12334096>>
       [] d = 1000 -> <<-61, 54156259, 53141136>>
       [] d = 3000 -> <<-77, 35604080, 13964150>>
       [] d = 6381 -> <<-105, 33716280, 103904654>>
       [] OTHER -> IF d = 6382 THEN <<-106, 67045503, 84805489>>
                   ELSE <<-1076, 33726047, 110634028>>]

\* the positive float listed as <<e, h, l>>
FromLimbs(limbs) ==
  Float(1, {k + limbs[1] : k \in BitsOfNat(limbs[3])}
           \cup {k + 27 + limbs[1] : k \in BitsOfNat(limbs[2])})

\* 10 ** x raises OverflowError from this rating difference on
OverflowGap == 123302

\* the call raised OverflowError
OverflowError == [raised |-> "OverflowError"]

\* whether a call returned a float
Returned(x) == x # OverflowError

\* expected_score(rating_a, rating_b)
expected_score(rating_a, rating_b) ==
  IF rating_b - rating_a >= OverflowGap THEN OverflowError
  ELSE FromLimbs(ExpectedScores[rating_b - rating_a])

\* update_elo that leaves out the parentheses around score_a - exp_a
UpdateEloUnbracketed(rating_a, rating_b, score_a, k) ==
  IF ~Returned(expected_score(rating_a, rating_b)) THEN OverflowError
  ELSE FSub(FAdd(FromInt(rating_a), FMul(FromInt(k), score_a)),
            expected_score(rating_a, rating_b))

\* update_elo(rating_a, rating_b, score_a, k), before submit_battle rounds it
update_elo_float(rating_a, rating_b, score_a, k) ==
  IF ~Returned(expected_score(rating_a, rating_b)) THEN OverflowError
  ELSE FAdd(FromInt(rating_a),
            FMul(FromInt(k), FSub(score_a, expected_score(rating_a, rating_b))))

\* update_elo(rating_a, rating_b, score_a): k takes its default
update_elo_default(rating_a, rating_b, score_a) ==
  update_elo_float(rating_a, rating_b, score_a, 32)

(***************************************************************************)
(* Calls of expected_score and update_elo on ratings of any distance.      *)
(***************************************************************************)
\* the values of rating_a
EloRatings == {0, 1000, 1016, 1500, 3000}

\* the values of k
KFactors == {1, 10, 16, 32, 33, 64}

\* the values of score_a
Scores == {Zero, Half, One}

InitElo ==
  /\ project = [items |-> <<>>, battle_history |-> <<>>, tournament |-> NoTournament]
  /\ prev = project
  /\ \E rating_a \in EloRatings, d \in ExpectedGaps \cup {OverflowGap} :
       call = [op |-> "input", rating_a |-> rating_a, rating_b |-> rating_a + d]
  /\ offscript = 0
  /\ inflight = [p \in Procs |-> Idle]

\* expected_score(rating_a, rating_b)
ExpectedScore ==
  /\ call.op = "input"
  /\ call' = [op |-> "expected_score",
              rating_a |-> call.rating_a, rating_b |-> call.rating_b,
              returned |-> expected_score(call.rating_a, call.rating_b)]
  /\ UNCHANGED <<project, prev, offscript, inflight>>

\* update_elo(rating_a, rating_b, score_a, k)
UpdateElo ==
  /\ call.op = "input"
  /\ \E score_a \in Scores, k \in KFactors :
       call' = [op |-> "update_elo",
                rating_a |-> call.rating_a, rating_b |-> call.rating_b,
                score_a |-> score_a, k |-> k,
                returned |-> update_elo_float(call.rating_a, call.rating_b, score_a, k)]
  /\ UNCHANGED <<project, prev, offscript, inflight>>

\* update_elo(rating_a, rating_b, score_a)
UpdateEloDefault ==
  /\ call.op = "input"
  /\ \E score_a \in Scores :
       call' = [op |-> "update_elo_default",
                rating_a |-> call.rating_a, rating_b |-> call.rating_b,
                score_a |-> score_a,
                returned |-> update_elo_default(call.rating_a, call.rating_b, score_a)]
  /\ UNCHANGED <<project, prev, offscript, inflight>>

NextElo == ExpectedScore \/ UpdateElo \/ UpdateEloDefault

SpecElo == InitElo /\ [][NextElo]_vars

(***************************************************************************)
(* The file store: one worker saving the project file (save_json, called   *)
(* by _save_project) while another loads it (load_json, called by          *)
(* get_project), step by step.  Here `project` is the project file,        *)
(* `prev` the document of the last save_json that returned, `offscript`    *)
(* the number of save_json calls so far.                                   *)
(***************************************************************************)
\* the save_json calls of a run
MaxSaves == 3

\* the most buffers of text a document fills when it is written
MaxPieces == 2

\* the worker that saves and the worker that loads
Writer == "p"
Reader == "q"

\* a project as a caller holds it: its version, and the buffers its text fills
Document(version, pieces) == [version |-> version, pieces |-> pieces]

\* json.dump: the text of a document, one element per buffer written
Serialized(doc) == [i \in 1..doc.pieces |-> [doc |-> doc, piece |-> i]]

JSONDecodeError == [raised |-> "JSONDecodeError"]

\* json.load: the document if the text is all of its text, else JSONDecodeError
\* (the empty file and every cut-off text are not JSON)
Parsed(content) ==
  IF content = <<>> THEN JSONDecodeError
  ELSE IF content = Serialized(content[1].doc) THEN content[1].doc
  ELSE JSONDecodeError

\* load_json's default = {}
EmptyDefault == [version |-> None, pieces |-> 0]

\* load_json from json.load on: the except clause gives the default
Loaded(content) ==
  IF Parsed(content) = JSONDecodeError THEN EmptyDefault ELSE Parsed(content)

\* the file create_project saved
InitStore ==
  /\ \E pieces \in 1..MaxPieces :
       /\ project = [exists |-> TRUE,
                     content |-> Serialized(Document(0, pieces))]
       /\ prev = Document(0, pieces)
  /\ call = [op |-> "none"]
  /\ offscript = 0
  /\ inflight = [p \in Procs |-> Idle]

\* fcntl.flock: who holds the shared lock, who the exclusive lock
HoldsShared(p) == inflight[p].pc \in {"locked_sh", "loaded"}
HoldsExclusive(p) == inflight[p].pc \in {"locked_ex", "dumped"}

\* save_json: open(filepath, 'w') truncates the file, before any lock
OpenWrite ==
  /\ inflight[Writer].pc = "idle"
  /\ offscript < MaxSaves
  /\ \E pieces \in 1..MaxPieces :
       inflight' = [inflight EXCEPT ![Writer] =
                      [pc |-> "opened_w", data |-> Document(offscript + 1, pieces)]]
  /\ project' = [project EXCEPT !.exists = TRUE, !.content = <<>>]
  /\ offscript' = offscript + 1
  /\ UNCHANGED <<prev, call>>

\* save_json: fcntl.flock(f.fileno(), fcntl.LOCK_EX) waits for every other lock
LockExclusive ==
  /\ inflight[Writer].pc = "opened_w"
  /\ \A q \in Procs \ {Writer} : ~HoldsShared(q) /\ ~HoldsExclusive(q)
  /\ inflight' = [inflight EXCEPT ![Writer].pc = "locked_ex"]
  /\ UNCHANGED <<project, prev, call, offscript>>

\* save_json: json.dump(data, f, ...): every full buffer reaches the file, the
\* last stays in the buffer of f
JsonDump ==
  /\ inflight[Writer].pc = "locked_ex"
  /\ project' = [project EXCEPT !.content =
                   SubSeq(Serialized(inflight[Writer].data), 1,
                          inflight[Writer].data.pieces - 1)]
  /\ inflight' = [inflight EXCEPT ![Writer].pc = "dumped"]
  /\ UNCHANGED <<prev, call, offscript>>

\* save_json: finally: fcntl.flock(f.fileno(), fcntl.LOCK_UN)
UnlockExclusive ==
  /\ inflight[Writer].pc = "dumped"
  /\ inflight' = [inflight EXCEPT ![Writer].pc = "unlocked_w"]
  /\ UNCHANGED <<project, prev, call, offscript>>

\* save_json: leaving `with open(...)` closes f, which writes its buffer
CloseWrite ==
  /\ inflight[Writer].pc = "unlocked_w"
  /\ project' = [project EXCEPT !.content =
                   Serialized(inflight[Writer].data)]
  /\ prev' = inflight[Writer].data
  /\ inflight' = [inflight EXCEPT ![Writer] = Idle]
  /\ UNCHANGED <<call, offscript>>

\* get_project: os.path.exists(filepath), then load_json up to open(filepath, 'r')
OpenRead ==
  /\ inflight[Reader].pc = "idle"
  /\ IF project.exists
     THEN /\ inflight' = [inflight EXCEPT ![Reader] = [pc |-> "opened_r"]]
          /\ UNCHANGED call
     ELSE /\ call' = [op |-> "get_project", returned |-> None,
                      previous |-> prev, saving |-> inflight[Writer]]
          /\ UNCHANGED inflight
  /\ UNCHANGED <<project, prev, offscript>>

\* load_json: fcntl.flock(f.fileno(), fcntl.LOCK_SH) waits for the exclusive lock
LockShared ==
  /\ inflight[Reader].pc = "opened_r"
  /\ \A q \in Procs \ {Reader} : ~HoldsExclusive(q)
  /\ inflight' = [inflight EXCEPT ![Reader].pc = "locked_sh"]
  /\ UNCHANGED <<project, prev, call, offscript>>

\* load_json: json.load(f), or the default for JSONDecodeError
JsonLoad ==
  /\ inflight[Reader].pc = "locked_sh"
  /\ inflight' = [inflight EXCEPT ![Reader] =
                    [pc |-> "loaded",
                     result |-> Loaded(project.content),
                     previous |-> prev,
                     saving |-> inflight[Writer]]]
  /\ UNCHANGED <<project, prev, call, offscript>>

\* load_json: finally: fcntl.flock(f.fileno(), fcntl.LOCK_UN), and the return
\* of get_project
UnlockShared ==
  /\ inflight[Reader].pc = "loaded"
  /\ call' = [op |-> "get_project", returned |-> inflight[Reader].result,
              previous |-> inflight[Reader].previous,
              saving |-> inflight[Reader].saving]
  /\ inflight' = [inflight EXCEPT ![Reader] = Idle]
  /\ UNCHANGED <<project, prev, offscript>>

NextStore ==
  \/ OpenWrite \/ LockExclusive \/ JsonDump \/ UnlockExclusive \/ CloseWrite
  \/ OpenRead \/ LockShared \/ JsonLoad \/ UnlockShared

SpecStore == InitStore /\ [][NextStore]_vars

(***************************************************************************)
(* Properties.  T is the tournament as persisted now, P as it was when the *)
(* last request arrived; Target is the place of the match the last         *)
(* submission named, in P.                                                 *)
(***************************************************************************)
T == project.tournament
P == prev.tournament
Submitted == call.op = "submit"
Target == _find_match(P, call.match_id)

\* the last request was a submission for a match that already had a winner
Resubmitted ==
  /\ Submitted
  /\ IF Target = NoLocation THEN FALSE ELSE MatchAt(P, Target).winner_id # None

\* ratings, battle history, every match, match_count, total_matches and status
\* are as they were when the request arrived
NothingChanged ==
  /\ \A i \in DOMAIN prev.items :
       i \in DOMAIN project.items /\ project.items[i].rating = prev.items[i].rating
  /\ project.battle_history = prev.battle_history
  /\ T = P

\* C1: a submission for a match whose winner_id is already set returns an
\* error and leaves ratings, battle history, every match's slots and results,
\* match_count, total_matches and status as they were.
C1_ResubmitRejected == Resubmitted => (call.returned = None /\ NothingChanged)

\* C2: whenever submit_tournament_match returns None the persisted project is
\* unchanged by the call.
C2_NoneIsNoOp == (Submitted /\ call.returned = None) => project = prev

\* C3: once a match's winner_id and loser_id are non-null they never change.
C3_ResultsImmutable ==
  \A loc \in Locations(P) :
    (MatchAt(P, loc).winner_id # None /\ MatchAt(P, loc).loser_id # None)
    => /\ loc \in Locations(T)
       /\ MatchAt(T, loc).winner_id = MatchAt(P, loc).winner_id
       /\ MatchAt(T, loc).loser_id = MatchAt(P, loc).loser_id

\* the completion rule: grand final decided with winner equal to its item_a,
\* or decided with the other winner and a reset match that exists and is decided
CompletionRule(t) ==
  /\ t.grand_final.match.winner_id # None
  /\ \/ t.grand_final.match.winner_id = t.grand_final.match.item_a_id
     \/ /\ t.grand_final.reset_match # NoMatch
        /\ t.grand_final.reset_match.winner_id # None

\* C4: status starts as in_progress, changes to completed at most once and
\* never back; the change happens only in a submission for the grand final or
\* the reset match, and exactly when the completion rule holds after it.
C4_StatusOnce ==
  /\ call.op = "create_tournament" => T.status = "in_progress"
  /\ P.status = "completed" => T.status = "completed"
  /\ (P.status = "in_progress" /\ T.status = "completed")
       => (Submitted /\ Target \in {GFLoc, ResetLoc})
  /\ (Submitted /\ P.status = "in_progress" /\ Target \in {GFLoc, ResetLoc})
       => (T.status = "completed" <=> CompletionRule(T))

\* C5: once status is completed, every submission (any match id, any side)
\* returns an error and changes nothing.
C5_CompletedRejects ==
  (Submitted /\ P.status = "completed") => (call.returned = None /\ project = prev)

\* a submission arrived at a completed tournament, for the grand final itself
C5_Witness ==
  /\ Submitted
  /\ P.status = "completed"
  /\ Target = GFLoc
  /\ call.returned = None

\* C6: the match get_next_match returns has both item_a_id and item_b_id
\* non-null and winner_id null.
C6_NextIsPlayable ==
  get_next_match(T) # NoLocation
  => /\ MatchAt(T, get_next_match(T)).item_a_id # None
     /\ MatchAt(T, get_next_match(T)).item_b_id # None
     /\ MatchAt(T, get_next_match(T)).winner_id = None

\* a match is playable: both slots filled, winner_id null
Playable(match) ==
  match.item_a_id # None /\ match.item_b_id # None /\ match.winner_id = None

\* C7: when only playable matches are submitted, get_next_match returns none
\* if and only if status is completed, and an in_progress tournament has a
\* playable match.
C7_NoDeadlock ==
  /\ get_next_match(T) = NoLocation <=> T.status = "completed"
  /\ T.status = "in_progress" => \E loc \in Locations(T) : Playable(MatchAt(T, loc))

\* the grand final went to the losers-bracket champion and the reset is pending
C7_Witness ==
  /\ T.status = "in_progress"
  /\ T.grand_final.match.winner_id # None
  /\ get_next_match(T) = ResetLoc

\* C8: played to completion in the order of get_next_match, match_count at
\* completion equals total_matches: 30 if the grand final's item_a won it,
\* 31 if its item_b won it.
C8_MatchCount ==
  T.status = "completed"
  => /\ T.match_count = T.total_matches
     /\ T.grand_final.match.winner_id = T.grand_final.match.item_a_id
          => T.match_count = BaseMatches
     /\ T.grand_final.match.winner_id = T.grand_final.match.item_b_id
          => T.match_count = ResetMatches

\* a tournament completed by its reset match
C8_Witness ==
  /\ T.status = "completed"
  /\ T.grand_final.match.winner_id = T.grand_final.match.item_b_id
  /\ T.grand_final.reset_match.winner_id # None

\* C9: at the submission that completes the tournament, champion_id and
\* results come from the reset match if one was played, else from the grand
\* final, whose winner is then its item_a; results.1st is champion_id.
C9_Champion ==
  (P.status = "in_progress" /\ T.status = "completed")
  => /\ T.results # NoResults
     /\ T.results[1] = T.champion_id
     /\ IF T.grand_final.reset_match # NoMatch
           /\ T.grand_final.reset_match.winner_id # None
        THEN /\ T.champion_id = T.grand_final.reset_match.winner_id
             /\ T.results[2] = T.grand_final.reset_match.loser_id
        ELSE /\ T.champion_id = T.grand_final.match.winner_id
             /\ T.champion_id = T.grand_final.match.item_a_id
             /\ T.results[2] = T.grand_final.match.loser_id

\* the completing submission was the reset match, won by the item that had
\* lost the grand final
C9_Witness ==
  /\ P.status = "in_progress"
  /\ T.status = "completed"
  /\ Target = ResetLoc
  /\ T.champion_id = T.grand_final.match.loser_id
  /\ T.champion_id # None

\* C10: total_matches is 30 or 31; 30 at creation; 31 if and only if the
\* grand final is decided with winner equal to its item_b.
C10_TotalMatches ==
  /\ T.total_matches \in {BaseMatches, ResetMatches}
  /\ call.op = "create_tournament" => T.total_matches = BaseMatches
  /\ T.total_matches = ResetMatches
       <=> /\ T.grand_final.match.winner_id # None
           /\ T.grand_final.match.winner_id = T.grand_final.match.item_b_id

\* both workers have returned from their calls
BothReturned == \A p \in Procs : inflight[p].pc = "returned"

\* the persisted project after the two calls run one after the other
Serial(first, second) ==
  submit_tournament_match(
    submit_tournament_match(prev, inflight[first].match_id,
                            inflight[first].winner_side).project,
    inflight[second].match_id, inflight[second].winner_side).project

\* C11: when two calls for two different playable matches run concurrently,
\* the final persisted project holds both results, both advancements, both
\* rating updates and match_count increased by 2: it is what the two calls
\* give when run one after the other, in one order or the other.
C11_NoLostUpdate ==
  BothReturned => project \in {Serial("p", "q"), Serial("q", "p")}

\* C12: the persisted project never holds the battle-history entry of a match
\* while that match's winner_id is still null.
C12_OneUnit ==
  \A n \in 1..Len(project.battle_history) :
    \E loc \in Locations(T) :
      /\ MatchAt(T, loc).battle_id = project.battle_history[n].id
      /\ MatchAt(T, loc).winner_id # None

\* the last request created a tournament
CreatedOne == call.op = "create" /\ T # NoTournament

\* C13: every tournament create_tournament stores has exactly 16 pairwise
\* distinct participant ids; a list with a repeated id produces none.
C13_DistinctParticipants ==
  CreatedOne
  => /\ Len(T.participants) = NumParticipants
     /\ \A p, q \in 1..Len(T.participants) :
          p # q => T.participants[p] # T.participants[q]

\* the list had a wrong count or an unknown id
Invalid(item_ids) ==
  \/ Len(item_ids) # NumParticipants
  \/ \E p \in 1..Len(item_ids) : item_ids[p] \notin DOMAIN prev.items

\* C14: create_tournament returns none when the number of ids is not 16 or an
\* id is not an item of the project, and the persisted project is unchanged.
C14_InvalidCreateRejected ==
  (call.op = "create" /\ Invalid(call.item_ids))
  => (~call.returned /\ project = prev)

\* sixteen ids, the last of them unknown, were given and nothing was stored
C14_Witness ==
  /\ call.op = "create"
  /\ Len(call.item_ids) = NumParticipants
  /\ call.item_ids[NumParticipants] = UnknownItem
  /\ project = prev
  /\ ~call.returned

\* how often an id occurs in a list indexed by a set of positions
Occurrences(list, positions, id) == Cardinality({p \in positions : list[p] = id})

\* the position of the k-th occurrence of an id in a list
NthPosition(list, positions, id, k) ==
  CHOOSE p \in positions :
    /\ list[p] = id
    /\ Cardinality({q \in positions : q < p /\ list[q] = id}) = k - 1

\* the participants are pairwise distinct
DistinctInput ==
  \A p, q \in 1..Len(T.participants) : p # q => T.participants[p] # T.participants[q]

\* C15: the seeding is a permutation of the participants in non-increasing
\* order of rating at creation, and participants of equal rating keep their
\* relative order of the input list.
C15_Seeding ==
  CreatedOne
  => /\ DOMAIN T.seeding = 0..(Len(T.participants) - 1)
     /\ \A id \in ItemIds :
          Occurrences(T.seeding, DOMAIN T.seeding, id)
            = Occurrences(T.participants, DOMAIN T.participants, id)
     /\ \A s, s2 \in DOMAIN T.seeding :
          s < s2 => prev.items[T.seeding[s]].rating >= prev.items[T.seeding[s2]].rating
     /\ \A x, y \in ItemIds :
          (x # y /\ prev.items[x].rating = prev.items[y].rating)
          => \A k \in 1..Occurrences(T.participants, DOMAIN T.participants, x),
                m \in 1..Occurrences(T.participants, DOMAIN T.participants, y) :
               NthPosition(T.seeding, DOMAIN T.seeding, x, k)
                 < NthPosition(T.seeding, DOMAIN T.seeding, y, m)
               <=> NthPosition(T.participants, DOMAIN T.participants, x, k)
                     < NthPosition(T.participants, DOMAIN T.participants, y, m)

\* a tournament created from ids in descending order whose item 16 and item 1
\* have equal ratings: 16 is seeded before 1
C15_Witness ==
  /\ CreatedOne
  /\ DistinctInput
  /\ call.item_ids[1] = NumParticipants
  /\ \E s, s2 \in DOMAIN T.seeding :
       /\ s < s2
       /\ T.seeding[s] = NumParticipants
       /\ T.seeding[s2] = 1
       /\ prev.items[1].rating = prev.items[NumParticipants].rating

\* the fixed table of round-1 pairings, as 0-based seed ranks
Pairings ==
  << <<0, 15>>, <<7, 8>>, <<4, 11>>, <<3, 12>>, <<5, 10>>, <<2, 13>>, <<6, 9>>, <<1, 14>> >>

\* the round-1 slots an id sits in
RoundOneSlots(id) ==
  {<<j, "a">> : j \in {i \in 0..7 : T.winners_bracket[0][i].item_a_id = id}}
  \cup {<<j, "b">> : j \in {i \in 0..7 : T.winners_bracket[0][i].item_b_id = id}}

\* C16: in a new tournament round-1 match j holds seeding[a_j] and
\* seeding[b_j] of the fixed table, so each participant occupies exactly one
\* round-1 slot; every other match has both slots null and reset_match is null.
C16_RoundOne ==
  CreatedOne
  => /\ \A j \in 0..7 :
          /\ T.winners_bracket[0][j].item_a_id = T.seeding[Pairings[j + 1][1]]
          /\ T.winners_bracket[0][j].item_b_id = T.seeding[Pairings[j + 1][2]]
     /\ \A p \in 1..Len(T.participants) :
          Cardinality(RoundOneSlots(T.participants[p])) = 1
     /\ \A loc \in (WBLocs \cup LBLocs \cup {GFLoc}) \ {<<"w", 0, j>> : j \in 0..7} :
          MatchAt(T, loc).item_a_id = None /\ MatchAt(T, loc).item_b_id = None
     /\ T.grand_final.reset_match = NoMatch

C18_UnknownIdsRejected ==
  (Submitted /\ (call.tournament_id # TournamentId \/ Target = NoLocation))
  => (call.returned = None /\ project = prev)

\* a call for the playable match get_next_match returns, with a valid side,
\* but with a tournament id the project does not have
C18_Witness ==
  /\ Submitted
  /\ call.tournament_id # TournamentId
  /\ call.winner_side = "a"
  /\ Target # NoLocation
  /\ Target = call.next
  /\ P.match_count > 0
  /\ call.returned = None

\* the name the display must give for an id
ExpectedName(item_id) ==
  IF item_id = None \/ item_id \notin DOMAIN project.items THEN ""
  ELSE ItemName(item_id)

\* C19: get_bracket_display changes neither the tournament nor the project,
\* succeeds in every reachable state, and gives an empty string for
\* item_a_name, item_b_name, winner_name or champion_name whenever the id is
\* null or not an item of the project.
C19_DisplayReadOnly ==
  call.op = "display"
  => /\ project = prev
     /\ call.returned.tournament = T
     /\ call.returned.champion_name = ExpectedName(T.champion_id)
     /\ \A loc \in Locations(T) :
          /\ MatchAt(call.returned, loc).id = MatchAt(T, loc).id
          /\ MatchAt(call.returned, loc).item_a_name = ExpectedName(MatchAt(T, loc).item_a_id)
          /\ MatchAt(call.returned, loc).item_b_name = ExpectedName(MatchAt(T, loc).item_b_id)
          /\ MatchAt(call.returned, loc).winner_name = ExpectedName(MatchAt(T, loc).winner_id)

\* a display of a tournament with an empty slot, and with a decided match
\* whose winner has been deleted from the project
C19_Witness ==
  /\ call.op = "display"
  /\ \E loc \in Locations(T) : MatchAt(T, loc).item_a_id = None
  /\ \E loc \in Locations(T) :
       /\ MatchAt(T, loc).winner_id # None
       /\ MatchAt(T, loc).winner_id \notin DOMAIN project.items
       /\ MatchAt(call.returned, loc).winner_name = ""

\* C20: for the same ratings before the battle, the rating one side gains
\* equals the rating the other side loses; through submit_battle, the sum of
\* the two items' ratings is the same before and after the battle.
C20_ZeroSum ==
  (call.op = "battle" /\ call.returned # None)
  => /\ \A score_a \in 0..2 :
          update_elo(prev.items[call.item_a_id].rating,
                     prev.items[call.item_b_id].rating, score_a)
            - prev.items[call.item_a_id].rating
          = prev.items[call.item_b_id].rating
            - update_elo(prev.items[call.item_b_id].rating,
                         prev.items[call.item_a_id].rating, 2 - score_a)
     /\ project.items[call.item_a_id].rating + project.items[call.item_b_id].rating
          = prev.items[call.item_a_id].rating + prev.items[call.item_b_id].rating

\* C21: expected_score(a, a) = 0.5 for every rating a, and
\* expected_score(a, b) + expected_score(b, a) = 1 for all ratings a, b; the
\* higher-rated side's expected score lies strictly between 0.5 and 1.
C21_ExpectedScore ==
  call.op = "expected_score"
  => /\ expected_score(call.rating_a, call.rating_a) = Half
     /\ Returned(call.returned)
     /\ Returned(expected_score(call.rating_b, call.rating_a))
     /\ IF Returned(call.returned)
           /\ Returned(expected_score(call.rating_b, call.rating_a))
        THEN FAdd(call.returned, expected_score(call.rating_b, call.rating_a)) = One
        ELSE FALSE
     /\ IF Returned(call.returned) /\ call.rating_a > call.rating_b
        THEN FLess(Half, call.returned) /\ FLess(call.returned, One)
        ELSE TRUE

\* r + k / 2 as a float, for a rating r >= 0
HalfKAbove(r, k) == Float(1, {j - 1 : j \in BitsOfNat(2 * r + k)})

\* C22: with equal ratings r, update_elo(r, r, 1.0, k) = r + k/2 and
\* update_elo(r, r, 0.5, k) = r; update_elo(1000, 1000, 1.0, 32) = 1016 and
\* update_elo(1000, 1000, 0.5, 32) = 1000, and the default k is 32.
C22_EqualRatings ==
  /\ (call.op = "update_elo" /\ call.rating_a = call.rating_b)
     => /\ call.score_a = One => call.returned = HalfKAbove(call.rating_a, call.k)
        /\ call.score_a = Half => call.returned = FromInt(call.rating_a)
        /\ (call.rating_a = 1000 /\ call.k = 32 /\ call.score_a = One)
           => call.returned = FromInt(1016)
        /\ (call.rating_a = 1000 /\ call.k = 32 /\ call.score_a = Half)
           => call.returned = FromInt(1000)
  /\ (call.op = "update_elo_default" /\ call.rating_a = call.rating_b)
     => /\ call.score_a = One => call.returned = HalfKAbove(call.rating_a, 32)
        /\ call.score_a = Half => call.returned = FromInt(call.rating_a)

\* update_elo(1000, 1000, 1.0) without k returned 1016.0
C22_Witness ==
  /\ call.op = "update_elo_default"
  /\ call.rating_a = 1000
  /\ call.rating_b = 1000
  /\ call.score_a = One
  /\ call.returned = FromInt(1016)

\* the last request was a submission the code carried out, for a match of
\* this bracket, and it left the match with a winner
Decided(bracket) ==
  /\ Submitted
  /\ ~Rejected(P, call.match_id)
  /\ Target[1] = bracket
  /\ MatchAt(T, Target).winner_id # None

\* the slots of a match, and a slot by its name
SlotA(t, loc) == MatchAt(t, loc).item_a_id
SlotB(t, loc) == MatchAt(t, loc).item_b_id
Slot(t, loc, side) == IF side = "a" THEN SlotA(t, loc) ELSE SlotB(t, loc)

\* item_a for an even index, item_b for an odd one
ByParity(i) == IF i % 2 = 0 THEN "a" ELSE "b"

\* where the advancement tables send the winner of the match at a place:
\* the target place and the slot; no place for the reset match
WinnerGoesTo(loc) ==
  CASE loc[1] = "w" /\ loc[2] < 3 -> << <<"w", loc[2] + 1, loc[3] \div 2>>, ByParity(loc[3]) >>
    [] loc[1] = "w" /\ loc[2] = 3 -> <<GFLoc, "a">>
    [] loc[1] = "l" /\ loc[2] = 0 -> << <<"l", 1, loc[3]>>, "a" >>
    [] loc[1] = "l" /\ loc[2] = 1 -> << <<"l", 2, loc[3] \div 2>>, ByParity(loc[3]) >>
    [] loc[1] = "l" /\ loc[2] = 2 -> << <<"l", 3, loc[3]>>, "a" >>
    [] loc[1] = "l" /\ loc[2] = 3 -> << <<"l", 4, loc[3] \div 2>>, ByParity(loc[3]) >>
    [] loc[1] = "l" /\ loc[2] = 4 -> << <<"l", 5, 0>>, "a" >>
    [] loc[1] = "l" /\ loc[2] = 5 -> <<GFLoc, "b">>
    [] OTHER -> <<NoLocation, "a">>

\* where they send the loser: a place of the losers bracket for a
\* winners-bracket match, no place for any other
LoserGoesTo(loc) ==
  CASE loc[1] = "w" /\ loc[2] = 0 -> << <<"l", 0, loc[3] \div 2>>, ByParity(loc[3]) >>
    [] loc[1] = "w" /\ loc[2] = 1 -> << <<"l", 1, loc[3]>>, "b" >>
    [] loc[1] = "w" /\ loc[2] = 2 -> << <<"l", 3, loc[3]>>, "b" >>
    [] loc[1] = "w" /\ loc[2] = 3 -> << <<"l", 5, 0>>, "b" >>
    [] OTHER -> <<NoLocation, "a">>

\* C23: after a winners-bracket match at round r, index i is decided, its
\* winner is in winners-bracket round r+1, match floor(i/2), item_a if i is
\* even and item_b if i is odd, for r < 3; for r = 3 in the grand final's
\* item_a.
C23_WinnersAdvance ==
  Decided("w")
  => IF Target[2] < 3
     THEN IF Target[3] % 2 = 0
          THEN SlotA(T, <<"w", Target[2] + 1, Target[3] \div 2>>)
                 = MatchAt(T, Target).winner_id
          ELSE SlotB(T, <<"w", Target[2] + 1, Target[3] \div 2>>)
                 = MatchAt(T, Target).winner_id
     ELSE SlotA(T, GFLoc) = MatchAt(T, Target).winner_id

\* the winners-bracket final was decided for its item_b, who sits in the
\* grand final's item_a
C23_Witness ==
  /\ Decided("w")
  /\ Target = <<"w", 3, 0>>
  /\ call.winner_side = "b"
  /\ SlotA(T, GFLoc) = SlotB(P, Target)
  /\ SlotA(P, GFLoc) = None

\* C24: after a winners-bracket match at round r, index i is decided, its
\* loser is in the losers bracket: r=0 in LB round 0, match floor(i/2), item_a
\* if i even else item_b; r=1 in LB round 1, match i, item_b; r=2 in LB round
\* 3, match i, item_b; r=3 in LB round 5, match 0, item_b.
C24_LosersDrop ==
  Decided("w")
  => CASE Target[2] = 0 ->
            IF Target[3] % 2 = 0
            THEN SlotA(T, <<"l", 0, Target[3] \div 2>>) = MatchAt(T, Target).loser_id
            ELSE SlotB(T, <<"l", 0, Target[3] \div 2>>) = MatchAt(T, Target).loser_id
       [] Target[2] = 1 -> SlotB(T, <<"l", 1, Target[3]>>) = MatchAt(T, Target).loser_id
       [] Target[2] = 2 -> SlotB(T, <<"l", 3, Target[3]>>) = MatchAt(T, Target).loser_id
       [] OTHER -> SlotB(T, <<"l", 5, 0>>) = MatchAt(T, Target).loser_id

\* the winners-bracket match of round 2, index 1 was decided and its loser
\* sits in item_b of LB round 3, match 1, which was empty before
C24_Witness ==
  /\ Decided("w")
  /\ Target = <<"w", 2, 1>>
  /\ SlotB(P, <<"l", 3, 1>>) = None
  /\ SlotB(T, <<"l", 3, 1>>) = MatchAt(T, Target).loser_id
  /\ MatchAt(T, Target).loser_id # None

\* the slots of every match apart from one slot of one place
OtherSlots(t, place, side) ==
  [loc \in Locations(t) |->
     << IF loc = place /\ side = "a" THEN None ELSE SlotA(t, loc),
        IF loc = place /\ side = "b" THEN None ELSE SlotB(t, loc) >>]

\* C25: after a losers-bracket match at round r, index i is decided, its
\* winner is in: r=0 LB round 1 match i item_a; r=1 LB round 2 match
\* floor(i/2), item_a if i even else item_b; r=2 LB round 3 match i item_a;
\* r=3 LB round 4 match floor(i/2), item_a if i even else item_b; r=4 LB round
\* 5 match 0 item_a; r=5 grand final item_b.  The loser is written to no
\* slot: no other slot of any match has changed.
C25_LosersAdvance ==
  Decided("l")
  => /\ CASE Target[2] = 0 -> SlotA(T, <<"l", 1, Target[3]>>) = MatchAt(T, Target).winner_id
           [] Target[2] = 1 ->
                IF Target[3] % 2 = 0
                THEN SlotA(T, <<"l", 2, Target[3] \div 2>>) = MatchAt(T, Target).winner_id
                ELSE SlotB(T, <<"l", 2, Target[3] \div 2>>) = MatchAt(T, Target).winner_id
           [] Target[2] = 2 -> SlotA(T, <<"l", 3, Target[3]>>) = MatchAt(T, Target).winner_id
           [] Target[2] = 3 ->
                IF Target[3] % 2 = 0
                THEN SlotA(T, <<"l", 4, Target[3] \div 2>>) = MatchAt(T, Target).winner_id
                ELSE SlotB(T, <<"l", 4, Target[3] \div 2>>) = MatchAt(T, Target).winner_id
           [] Target[2] = 4 -> SlotA(T, <<"l", 5, 0>>) = MatchAt(T, Target).winner_id
           [] OTHER -> SlotB(T, GFLoc) = MatchAt(T, Target).winner_id
     /\ OtherSlots(T, WinnerGoesTo(Target)[1], WinnerGoesTo(Target)[2])
          = OtherSlots(P, WinnerGoesTo(Target)[1], WinnerGoesTo(Target)[2])

\* the match of index 1 of LB round 3 was decided: its winner sits in item_b
\* of LB round 4, its loser in no slot that it was not in before
C25_Witness ==
  /\ Decided("l")
  /\ Target = <<"l", 3, 1>>
  /\ SlotB(P, <<"l", 4, 0>>) = None
  /\ SlotB(T, <<"l", 4, 0>>) = MatchAt(T, Target).winner_id
  /\ MatchAt(T, Target).loser_id # None
  /\ \A loc \in Locations(T) :
       /\ SlotA(T, loc) = MatchAt(T, Target).loser_id
            => SlotA(P, loc) = MatchAt(T, Target).loser_id
       /\ SlotB(T, loc) = MatchAt(T, Target).loser_id
            => SlotB(P, loc) = MatchAt(T, Target).loser_id

\* C26: a reset match exists if and only if the grand final has been decided
\* with its item_b as winner; when it is created its item_a is the grand
\* final's item_a and its item_b is the grand final's winner, both non-null
\* and different; when the grand final's item_a wins it, reset_match stays
\* null.
C26_ResetMatch ==
  /\ T.grand_final.reset_match # NoMatch
     <=> /\ T.grand_final.match.winner_id # None
         /\ T.grand_final.match.winner_id = T.grand_final.match.item_b_id
  /\ (P.grand_final.reset_match = NoMatch /\ T.grand_final.reset_match # NoMatch)
     => /\ T.grand_final.reset_match.item_a_id = T.grand_final.match.item_a_id
        /\ T.grand_final.reset_match.item_b_id = T.grand_final.match.winner_id
        /\ T.grand_final.reset_match.item_a_id # None
        /\ T.grand_final.reset_match.item_b_id # None
        /\ T.grand_final.reset_match.item_a_id # T.grand_final.reset_match.item_b_id
  /\ (T.grand_final.match.winner_id # None
      /\ T.grand_final.match.winner_id = T.grand_final.match.item_a_id)
     => T.grand_final.reset_match = NoMatch

\* the place a returned dict names by its bracket, round_idx and match_idx
NamedPlace(info) ==
  << CASE info.bracket = "winners" -> "w"
       [] info.bracket = "losers" -> "l"
       [] info.bracket = "grand_final" -> "gf"
       [] OTHER -> "reset",
     info.round_idx, info.match_idx >>

\* one place comes before another in the scan order: an earlier stage of the
\* play order, or the same stage and a lower index
Earlier(l1, l2) ==
  \/ StageOf(l1) < StageOf(l2)
  \/ StageOf(l1) = StageOf(l2) /\ l1[3] < l2[3]

\* the scan order WB R1, LB R1, WB R2, LB R2, LB R3, WB R3, LB R4, LB R5,
\* WB R4, LB R6, grand final, reset, as (bracket, round index)
ScanOrder ==
  << <<"w", 0>>, <<"l", 0>>, <<"w", 1>>, <<"l", 1>>, <<"l", 2>>, <<"w", 2>>,
     <<"l", 3>>, <<"l", 4>>, <<"w", 3>>, <<"l", 5>>, <<"gf", 0>>, <<"reset", 0>> >>

\* C27: for an in_progress tournament get_next_match returns the first
\* playable match in the scan order, lowest index first within a round: it
\* returns a match whenever one is playable, no playable match is at an
\* earlier position than the one returned, and the returned round_idx,
\* match_idx and match_number (= match_idx + 1) name the returned match's
\* position.
C27_NextMatchOrder ==
  T.status = "in_progress"
  => /\ PLAY_ORDER = ScanOrder
     /\ (\E loc \in Locations(T) : Playable(MatchAt(T, loc))) => NextMatch(T) # NoRecord
     /\ NextMatch(T) # NoRecord
        => /\ NamedPlace(NextMatch(T)) \in Locations(T)
           /\ MatchAt(T, NamedPlace(NextMatch(T))) = NextMatch(T).match
           /\ NextMatch(T).match_number = NextMatch(T).match_idx + 1
           /\ \A loc \in Locations(T) :
                Playable(MatchAt(T, loc)) => ~Earlier(loc, NamedPlace(NextMatch(T)))

\* the match of index 1 of LB round 0 is returned while the next match of
\* that round and the first match of WB round 1, later in the order, are
\* playable too
C27_Witness ==
  /\ T.status = "in_progress"
  /\ NextMatch(T) # NoRecord
  /\ NextMatch(T).bracket = "losers"
  /\ NextMatch(T).round_idx = 0
  /\ NextMatch(T).match_number = 2
  /\ Playable(MatchAt(T, <<"l", 0, 2>>))
  /\ Playable(MatchAt(T, <<"w", 1, 0>>))

\* the (place, slot) pairs the advancement tables give for the match at a place
TableTargets(loc) == {WinnerGoesTo(loc), LoserGoesTo(loc)} \ {<<NoLocation, "a">>}

\* winner_id, loser_id and battle_id of a match
ResultOf(match) == <<match.winner_id, match.loser_id, match.battle_id>>

\* the places that hold a match whether or not there is a reset match
FixedLocations == WBLocs \cup LBLocs \cup {GFLoc}

\* C28: a successful submit_tournament_match for match m sets winner_id,
\* loser_id and battle_id of m only, increases match_count by exactly 1, and
\* changes slots only in the at most two target matches the advancement tables
\* give, and after a grand final won by its item_b (and not by its item_a)
\* creates the reset match; the slots and results of every other match, the
\* participants, the seeding and the number of matches per round are
\* unchanged.
C28_Frame ==
  (Submitted /\ call.returned # None)
  => \A target \in {Target}, targets \in {TableTargets(Target)} :
     /\ target \in Locations(P)
     /\ ResultOf(MatchAt(T, target))
          = << Slot(P, target, call.winner_side),
               Slot(P, target, IF call.winner_side = "a" THEN "b" ELSE "a"),
               call.returned >>
     /\ T.match_count = P.match_count + 1
     /\ Cardinality(targets) <= 2
     /\ \A loc \in FixedLocations :
          /\ loc # target => ResultOf(MatchAt(T, loc)) = ResultOf(MatchAt(P, loc))
          /\ <<loc, "a">> \notin targets => SlotA(T, loc) = SlotA(P, loc)
          /\ <<loc, "b">> \notin targets => SlotB(T, loc) = SlotB(P, loc)
     /\ IF /\ target = GFLoc
           /\ T.grand_final.match.winner_id = T.grand_final.match.item_b_id
           /\ T.grand_final.match.winner_id # T.grand_final.match.item_a_id
        THEN /\ T.grand_final.reset_match # NoMatch
             /\ SlotA(T, ResetLoc) = SlotA(T, GFLoc)
             /\ SlotB(T, ResetLoc) = T.grand_final.match.winner_id
             /\ ResultOf(T.grand_final.reset_match) = <<None, None, None>>
        ELSE IF target = ResetLoc
        THEN /\ SlotA(T, ResetLoc) = SlotA(P, ResetLoc)
             /\ SlotB(T, ResetLoc) = SlotB(P, ResetLoc)
             /\ T.grand_final.reset_match.id = P.grand_final.reset_match.id
        ELSE T.grand_final.reset_match = P.grand_final.reset_match
     /\ T.participants = P.participants
     /\ T.seeding = P.seeding
     /\ DOMAIN T.winners_bracket = DOMAIN P.winners_bracket
     /\ DOMAIN T.losers_bracket = DOMAIN P.losers_bracket
     /\ \A r \in DOMAIN T.winners_bracket :
          DOMAIN T.winners_bracket[r] = DOMAIN P.winners_bracket[r]
     /\ \A r \in DOMAIN T.losers_bracket :
          DOMAIN T.losers_bracket[r] = DOMAIN P.losers_bracket[r]

\* a successful submission for the winners-bracket match of round 1, index 2:
\* its winner and its loser went into two slots that were empty, next to
\* slots that were filled and stay as they were
C28_Witness ==
  /\ Submitted
  /\ call.returned # None
  /\ Target = <<"w", 1, 2>>
  /\ SlotA(P, <<"w", 2, 1>>) = None
  /\ SlotA(T, <<"w", 2, 1>>) = MatchAt(T, Target).winner_id
  /\ SlotB(P, <<"l", 1, 2>>) = None
  /\ SlotB(T, <<"l", 1, 2>>) = MatchAt(T, Target).loser_id
  /\ SlotA(P, <<"l", 1, 2>>) # None
  /\ SlotA(T, <<"l", 1, 2>>) = SlotA(P, <<"l", 1, 2>>)
  /\ T.match_count = P.match_count + 1

\* C29: over any sequence of submit_tournament_match calls, advancement never
\* writes into a slot that is already non-null: every item_a_id / item_b_id
\* slot of every match, once non-null, keeps its value.
C29_SlotsWrittenOnce ==
  \A loc \in Locations(P) :
    /\ SlotA(P, loc) # None => (loc \in Locations(T) /\ SlotA(T, loc) = SlotA(P, loc))
    /\ SlotB(P, loc) # None => (loc \in Locations(T) /\ SlotB(T, loc) = SlotB(P, loc))

\* C30: in every state reachable by any sequence of submit_tournament_match
\* calls (any match id of the tournament, any side), status completed implies
\* that all 15 winners-bracket matches, all 14 losers-bracket matches and the
\* grand final are decided with non-null winner_id and loser_id, and
\* champion_id and results.2nd are non-null.
C30_NoPrematureCompletion ==
  T.status = "completed"
  => /\ Cardinality(WBLocs) = 15
     /\ Cardinality(LBLocs) = 14
     /\ \A loc \in WBLocs \cup LBLocs \cup {GFLoc} :
          MatchAt(T, loc).winner_id # None /\ MatchAt(T, loc).loser_id # None
     /\ T.champion_id # None
     /\ T.results # NoResults
     /\ T.results[2] # None

\* the decided matches of t that id lost
LostBy(t, id) ==
  {loc \in Locations(t) :
     MatchAt(t, loc).winner_id # None /\ MatchAt(t, loc).loser_id = id}

\* the participants in the slots of the undecided matches of t
Waiting(t) ==
  {MatchAt(t, loc).item_a_id : loc \in {l \in Locations(t) : MatchAt(t, l).winner_id = None}}
  \cup {MatchAt(t, loc).item_b_id : loc \in {l \in Locations(t) : MatchAt(t, l).winner_id = None}}

\* C31: double elimination, when only playable matches are submitted: in a
\* completed tournament each non-champion is the loser of exactly two decided
\* matches and the champion of at most one, of none when the grand final's
\* item_a won it; and no participant that has lost two matches is in a slot
\* of an undecided match.
C31_DoubleElimination ==
  /\ T.status = "completed"
       => /\ \A id \in ItemIds \ {T.champion_id} : Cardinality(LostBy(T, id)) = 2
          /\ Cardinality(LostBy(T, T.champion_id)) <= 1
          /\ T.grand_final.match.winner_id = T.grand_final.match.item_a_id
               => LostBy(T, T.champion_id) = {}
  /\ \A id \in Waiting(T) \ {None} : Cardinality(LostBy(T, id)) < 2

\* a tournament completed by its reset match, whose champion lost the grand
\* final
C31_Witness ==
  /\ T.status = "completed"
  /\ T.grand_final.reset_match # NoMatch
  /\ LostBy(T, T.champion_id) = {GFLoc}
  /\ Cardinality(LostBy(T, T.grand_final.reset_match.loser_id)) = 2

\* the matches of t, the reset match included, whose winner_id is set
DecidedMatches(t) == {loc \in Locations(t) : MatchAt(t, loc).winner_id # None}

\* C32: after any sequence of submissions, match_count equals the number of
\* matches (the reset match included) whose winner_id is non-null, and
\* match_count <= total_matches.
C32_MatchCountIsDecided ==
  /\ T.match_count = Cardinality(DecidedMatches(T))
  /\ T.match_count <= T.total_matches

\* the stages in the fixed play order: WB R1, LB R1, WB R2, LB R2, LB R3,
\* WB R3, LB R4, LB R5, WB R4, LB R6, grand final, and then the reset match
StagesInOrder ==
  << <<"w", 0>>, <<"l", 0>>, <<"w", 1>>, <<"l", 1>>, <<"l", 2>>, <<"w", 2>>,
     <<"l", 3>>, <<"l", 4>>, <<"w", 3>>, <<"l", 5>>, <<"gf", 0>>, <<"reset", 0>> >>

\* the position of the stage of a place in that order
StagePosition(loc) ==
  CHOOSE s \in 1..Len(StagesInOrder) : StagesInOrder[s] = <<loc[1], loc[2]>>

\* C33: when every submission is for the match get_next_match returns,
\* whenever a match of a stage is returned, every match of every earlier stage
\* of the fixed play order is decided and every match of the returned stage
\* has both slots filled.
C33_StageByStage ==
  \A next \in {get_next_match(T)} :
    next # NoLocation
    => \A loc \in Locations(T) :
         /\ StagePosition(loc) < StagePosition(next)
              => MatchAt(T, loc).winner_id # None
         /\ StagePosition(loc) = StagePosition(next)
              => /\ MatchAt(T, loc).item_a_id # None
                 /\ MatchAt(T, loc).item_b_id # None

\* the second match of LB R4 is returned: the first is decided, the WB R3
\* losers and the LB R3 winners are in the slots of both
C33_Witness ==
  /\ get_next_match(T) = <<"l", 3, 1>>
  /\ MatchAt(T, <<"l", 3, 0>>).winner_id # None
  /\ MatchAt(T, <<"l", 3, 1>>).item_a_id = MatchAt(T, <<"l", 2, 1>>).winner_id
  /\ MatchAt(T, <<"l", 3, 1>>).item_b_id = MatchAt(T, <<"w", 2, 1>>).loser_id
  /\ MatchAt(T, <<"l", 3, 1>>).item_b_id # None

\* the slots and results of every match, match_count, total_matches and
\* status: the tournament with ratings and battle ids left aside
BracketState(t) ==
  [slots |-> [loc \in Locations(t) |->
                <<MatchAt(t, loc).item_a_id, MatchAt(t, loc).item_b_id,
                  MatchAt(t, loc).winner_id, MatchAt(t, loc).loser_id>>],
   match_count |-> t.match_count,
   total_matches |-> t.total_matches,
   status |-> t.status]

\* the places of the playable matches of t
PlayablePlaces(t) == {loc \in Locations(t) : Playable(MatchAt(t, loc))}

\* the project after a submission for the match at loc
After(proj, loc, winner_side) ==
  submit_tournament_match(proj, MatchAt(project.tournament, loc).id,
                          winner_side).project

\* C34: if two different matches are both playable in a state, submitting
\* them with given winner sides in either order yields the same slots,
\* winner_id and loser_id values, match_count, total_matches and status; a
\* submission never makes another playable match unplayable.
C34_OrderIndependent ==
  \A playable \in {PlayablePlaces(T)} :
    \A l1 \in playable, s1 \in Sides :
      \A first \in {After(project, l1, s1)} :
        \A l2 \in playable \ {l1} :
          /\ Playable(MatchAt(first.tournament, l2))
          /\ \A s2 \in Sides :
               Earlier(l1, l2)
               => BracketState(After(first, l2, s2).tournament)
                  = BracketState(After(After(project, l2, s2), l1, s1).tournament)

\* the participants of the grand final: the items in its two slots
GrandFinalists(t) ==
  {t.grand_final.match.item_a_id, t.grand_final.match.item_b_id} \ {None}

\* C35: status is in_progress exactly when champion_id is null and exactly
\* when results is null; when status is completed, champion_id is one of the
\* two grand-final participants, results.1st is champion_id, results.2nd is
\* the other grand-final participant, and results.1st differs from results.2nd.
C35_StatusChampionResults ==
  /\ T.status = "in_progress" <=> T.champion_id = None
  /\ T.status = "in_progress" <=> T.results = NoResults
  /\ T.status = "completed"
       => /\ T.champion_id \in GrandFinalists(T)
          /\ T.results[1] = T.champion_id
          /\ T.results[2] \in GrandFinalists(T) \ {T.champion_id}
          /\ T.results[1] # T.results[2]

\* the participants in the two slots of the match at a place
Participants(t, loc) ==
  {MatchAt(t, loc).item_a_id, MatchAt(t, loc).item_b_id} \ {None}

\* the places of the undecided matches of t
Undecided(t) == {loc \in Locations(t) : MatchAt(t, loc).winner_id = None}

\* C36: when only playable matches are submitted (16 distinct participants),
\* no participant is in slots of two different undecided matches at the same
\* time, and no match, the grand final and the reset match included, has the
\* same participant in item_a and item_b.
C36_OneSeatEach ==
  /\ \A undecided \in {Undecided(T)} :
       \A l1 \in undecided, l2 \in undecided :
         l1 # l2 => Participants(T, l1) \cap Participants(T, l2) = {}
  /\ \A loc \in Locations(T) :
       MatchAt(T, loc).item_a_id # None
       => MatchAt(T, loc).item_a_id # MatchAt(T, loc).item_b_id

\* the reset match is pending between the two grand finalists, two different
\* participants, and every other match is decided
C36_Witness ==
  /\ Undecided(T) = {ResetLoc}
  /\ T.grand_final.reset_match # NoMatch
  /\ ResetLoc \in Undecided(T)
  /\ Cardinality(Participants(T, ResetLoc)) = 2
  /\ Participants(T, ResetLoc) = Participants(T, GFLoc)

\* the last request was a get_project whose json.load ran while a save_json
\* was in progress
LoadedDuringSave ==
  /\ call.op = "get_project"
  /\ call.saving.pc # "idle"

\* C37: a load_json (get_project) that runs while a save_json of the same
\* file is in progress returns either the complete previous content or the
\* complete new content, never the empty default, so get_project never
\* reports an existing project as missing.
C37_LoadDuringSave ==
  LoadedDuringSave
  => /\ call.returned \in {call.previous, call.saving.data}
     /\ call.returned # EmptyDefault
     /\ call.returned # None
====
